---------------------------- MODULE Spec2Model ----------------------------
(***************************************************************************)
(* Model of the inventory pipeline of bvpisos-datascience/inventariobvp:   *)
(* invent2.run_pipeline (parse file name, read, transform, merge with the  *)
(* history, dedup, 12-month window, metrics, write) and the window filter   *)
(* filter_last_months of src/core/transform.py.                            *)
(*                                                                         *)
(* Quantities are integers.  A nullable number is <<>> (NaN / NA) or <<v>>. *)
(* A nullable text is a string, NoneStr standing for None / NaN.           *)
(* A timestamp used as a calendar date is [y, m, d, h]; ingestion_ts is a   *)
(* logical clock that grows with every call of Timestamp.now().            *)
(***************************************************************************)
EXTENDS Integers, Sequences, FiniteSets, TLC

(***************************************************************************)
(* Bounds of the model.                                                    *)
(***************************************************************************)
MaxFiles == 2      \* length of the listing returned by list_gsheets_in_folder
MaxHist  == 2      \* rows of the history CSV
MaxDates == 3      \* rows of the table handed to filter_last_months
MaxText  == 3      \* length of the generated texts of a cell
MaxRows  == 2      \* rows of the table handed to _df_to_values

(***************************************************************************)
(* Program constants.                                                      *)
(***************************************************************************)
WindowMonths  == 12    \* invent2.py: pd.DateOffset(months=12)
DefaultMonths == 12    \* transform.py: filter_last_months(..., months=12)
MaxAttempts   == 5     \* ingestion.py: for attempt in range(1, 6)
Century       == 2000  \* invent2.py: ano = 2000 + ano2

Null    == <<>>
Some(v) == <<v>>
NoneStr == "<None>"

Range(s) == {s[i] : i \in 1..Len(s)}
Abs(n)   == IF n < 0 THEN -n ELSE n
Min(a, b) == IF a <= b THEN a ELSE b

(***************************************************************************)
(* Calendar: datetime.date / pandas.Timestamp arithmetic.                  *)
(***************************************************************************)
IsLeap(y) == (y % 4 = 0 /\ y % 100 # 0) \/ y % 400 = 0

DaysInMonth(y, m) ==
    IF m = 2 THEN (IF IsLeap(y) THEN 29 ELSE 28)
    ELSE IF m \in {4, 6, 9, 11} THEN 30 ELSE 31

\* datetime.date(y, m, d) raises ValueError unless this holds
ValidDate(y, m, d) == m \in 1..12 /\ d >= 1 /\ d <= DaysInMonth(y, m)

Ts(y, m, d, h) == [y |-> y, m |-> m, d |-> d, h |-> h]

\* Timestamp comparison: t1 < t2, t1 <= t2
TsLT(t1, t2) ==
    \/ t1.y < t2.y
    \/ t1.y = t2.y /\ t1.m < t2.m
    \/ t1.y = t2.y /\ t1.m = t2.m /\ t1.d < t2.d
    \/ t1.y = t2.y /\ t1.m = t2.m /\ t1.d = t2.d /\ t1.h < t2.h
TsLE(t1, t2) == t1 = t2 \/ TsLT(t1, t2)

\* Timestamp.normalize(): midnight of the same day
Normalize(t) == [t EXCEPT !.h = 0]

\* t - pd.DateOffset(months=n): the month moves back n months, the day is
\* clamped to the length of the resulting month, the time of day is kept
SubMonths(t, n) ==
    LET total == t.y * 12 + (t.m - 1) - n
        ny    == total \div 12
        nm    == (total % 12) + 1
    IN  [y |-> ny, m |-> nm, d |-> Min(t.d, DaysInMonth(ny, nm)), h |-> t.h]

\* Series.max() over a non-empty sequence of timestamps
MaxTs(S) == CHOOSE t \in S : \A u \in S : TsLE(u, t)

(***************************************************************************)
(* Characters of a file name (re module character classes).                *)
(***************************************************************************)
Digits  == "0123456789"
LowerAZ == "abcdefghijklmnopqrstuvwxyz"
UpperAZ == "ABCDEFGHIJKLMNOPQRSTUVWXYZ"

CharAt(s, i) == SubSeq(s, i, i)
CharSet(alphabet) == {CharAt(alphabet, k) : k \in 1..Len(alphabet)}
IndexIn(alphabet, c) == CHOOSE k \in 1..Len(alphabet) : CharAt(alphabet, k) = c

DigitSet == CharSet(Digits)
LowerSet == CharSet(LowerAZ)
UpperSet == CharSet(UpperAZ)
DigitValOf == [c \in DigitSet |-> IndexIn(Digits, c) - 1]
UpperOf    == [c \in LowerSet |-> CharAt(UpperAZ, IndexIn(LowerAZ, c))]
LowerOf    == [c \in UpperSet |-> CharAt(LowerAZ, IndexIn(UpperAZ, c))]

\* \d
IsDigit(c)  == c \in DigitSet
DigitVal(c) == DigitValOf[c]
\* str.upper() on one character
UpperChar(c) == IF c \in LowerSet THEN UpperOf[c] ELSE c
\* [A-Za-z0-9_-]
IsStoreChar(c) == c \in LowerSet \/ c \in UpperSet \/ c \in DigitSet \/ c \in {"_", "-"}

RECURSIVE UpperStr(_)
UpperStr(s) == IF Len(s) = 0 THEN "" ELSE UpperChar(CharAt(s, 1)) \o UpperStr(SubSeq(s, 2, Len(s)))


\* str.lower() on one character
LowerChar(c) == IF c \in UpperSet THEN LowerOf[c] ELSE c

RECURSIVE LowerStr(_)
LowerStr(s) == IF Len(s) = 0 THEN "" ELSE LowerChar(CharAt(s, 1)) \o LowerStr(SubSeq(s, 2, Len(s)))

(***************************************************************************)
(* invent2.parse_date_store                                                *)
(***************************************************************************)
\* re.search(r"(\d{2})(\d{2})(\d{2})", filename): start of the leftmost run
\* of six digits, 0 when there is none
SixDigitsAt(s, i) == i + 5 <= Len(s) /\ \A k \in i..(i + 5) : IsDigit(CharAt(s, k))
FindSixDigits(s) ==
    IF \E i \in 1..Len(s) : SixDigitsAt(s, i)
    THEN CHOOSE i \in 1..Len(s) :
             SixDigitsAt(s, i) /\ \A j \in 1..(i - 1) : ~SixDigitsAt(s, j)
    ELSE 0

TwoDigits(s, i) == DigitVal(CharAt(s, i)) * 10 + DigitVal(CharAt(s, i + 1))

\* re.search(r"loja-([A-Za-z0-9_-]+)", filename, flags=re.IGNORECASE):
\* start of the leftmost match, 0 when there is none
StoreAt(s, i) ==
    /\ i + 5 <= Len(s)
    /\ LowerStr(SubSeq(s, i, i + 4)) = "loja-"
    /\ IsStoreChar(CharAt(s, i + 5))
FindStore(s) ==
    IF \E i \in 1..Len(s) : StoreAt(s, i)
    THEN CHOOSE i \in 1..Len(s) : StoreAt(s, i) /\ \A j \in 1..(i - 1) : ~StoreAt(s, j)
    ELSE 0
\* the greedy group ([A-Za-z0-9_-]+) starting at position i
RECURSIVE StoreRun(_, _)
StoreRun(s, i) ==
    IF i <= Len(s) /\ IsStoreChar(CharAt(s, i))
    THEN CharAt(s, i) \o StoreRun(s, i + 1)
    ELSE ""

\* parse_date_store without the except ValueError branch
ParseDateNoFallback(filename, hoje) ==
    LET i == FindSixDigits(filename)
    IN  IF i = 0 THEN hoje
        ELSE Ts(Century + TwoDigits(filename, i + 4), TwoDigits(filename, i + 2),
                TwoDigits(filename, i), 0)

\* the date of parse_date_store; hoje is dt.date.today()
ParseDate(filename, hoje) ==
    LET i == FindSixDigits(filename)
    IN  IF i = 0 THEN hoje
        ELSE LET dia  == TwoDigits(filename, i)
                 mes  == TwoDigits(filename, i + 2)
                 ano2 == TwoDigits(filename, i + 4)
                 ano  == Century + ano2
             IN  IF ValidDate(ano, mes, dia) THEN Ts(ano, mes, dia, 0) ELSE hoje

\* the store of parse_date_store
ParseStore(filename) ==
    LET i == FindStore(filename)
    IN  IF i = 0 THEN NoneStr ELSE UpperStr(StoreRun(filename, i + 5))

parse_date_store(filename, hoje) ==
    [d |-> ParseDate(filename, hoje), loja |-> ParseStore(filename)]

(***************************************************************************)
(* invent2.normalize_cols.  Headers are ASCII strings; three stand-in       *)
(* characters represent non-ASCII letters: "{" is c-cedilla, "}" is a-tilde *)
(* (NFKD splits them into a base letter and a combining mark, and the      *)
(* ascii/ignore encoding drops the mark) and "^" is a non-ASCII character   *)
(* with no decomposition (dropped whole).                                  *)
(***************************************************************************)
Accented  == "{}"
BaseASCII == "ca"
Undecomposable == "^"

\* .str.normalize('NFKD').str.encode('ascii', 'ignore').str.decode('utf-8')
AsciiFoldChar(c) ==
    IF c \in CharSet(Accented) THEN CharAt(BaseASCII, IndexIn(Accented, c))
    ELSE IF c \in CharSet(Undecomposable) THEN ""
    ELSE c
RECURSIVE AsciiFold(_)
AsciiFold(s) == IF Len(s) = 0 THEN "" ELSE AsciiFoldChar(CharAt(s, 1)) \o AsciiFold(SubSeq(s, 2, Len(s)))

\* str.strip(chars): chars is a set of one-character strings
RECURSIVE LStrip(_, _)
LStrip(s, chars) ==
    IF Len(s) > 0 /\ CharAt(s, 1) \in chars THEN LStrip(SubSeq(s, 2, Len(s)), chars) ELSE s
RECURSIVE RStrip(_, _)
RStrip(s, chars) ==
    IF Len(s) > 0 /\ CharAt(s, Len(s)) \in chars THEN RStrip(SubSeq(s, 1, Len(s) - 1), chars) ELSE s
Strip(s, chars) == RStrip(LStrip(s, chars), chars)

IsSlugChar(c) == c \in LowerSet \/ c \in DigitSet

\* re.sub(r"[^a-z0-9]+", "_", s): inRun says the previous character was
\* already part of the run being replaced
RECURSIVE CollapseRuns(_, _)
CollapseRuns(s, inRun) ==
    IF Len(s) = 0 THEN ""
    ELSE LET c == CharAt(s, 1)
             rest == SubSeq(s, 2, Len(s))
         IN  IF IsSlugChar(c) THEN c \o CollapseRuns(rest, FALSE)
             ELSE IF inRun THEN CollapseRuns(rest, TRUE)
             ELSE "_" \o CollapseRuns(rest, TRUE)

Slugify(name) ==
    Strip(CollapseRuns(AsciiFold(LowerStr(Strip(name, {" "}))), FALSE), {"_"})

\* rename_map = {"item": "item_id"}
RenameCol(c) == IF c = "item" THEN "item_id" ELSE c

\* the column names of normalize_cols(df), in column order
normalize_cols(hdr) == [i \in 1..Len(hdr) |-> RenameCol(Slugify(hdr[i]))]

(***************************************************************************)
(* Cells of a raw table as read from a workbook: a number, a text or an     *)
(* empty cell (NaN).                                                       *)
(***************************************************************************)
Num(v)  == [t |-> "num", v |-> v, s |-> ""]
Text(s) == [t |-> "text", v |-> 0, s |-> s]
Empty   == [t |-> "nan", v |-> 0, s |-> ""]

RECURSIVE DigitsValue(_, _)
DigitsValue(s, acc) ==
    IF Len(s) = 0 THEN acc
    ELSE DigitsValue(SubSeq(s, 2, Len(s)), acc * 10 + DigitVal(CharAt(s, 1)))
AllDigits(s) == Len(s) > 0 /\ \A i \in 1..Len(s) : IsDigit(CharAt(s, i))

\* float(text) as pd.to_numeric does it, for texts that denote integers:
\* surrounding blanks, an optional sign, digits.  Any other text (letters,
\* a comma, a thousands dot followed by a comma) does not parse.  Texts
\* denoting a decimal fraction are not among the inputs of this model.
ParseNumber(text) ==
    LET s    == Strip(text, {" "})
        neg  == Len(s) > 0 /\ CharAt(s, 1) = "-"
        body == IF Len(s) > 0 /\ CharAt(s, 1) \in {"-", "+"} THEN SubSeq(s, 2, Len(s)) ELSE s
    IN  IF AllDigits(body)
        THEN Some(IF neg THEN -DigitsValue(body, 0) ELSE DigitsValue(body, 0))
        ELSE Null

\* pd.to_numeric(cell, errors="coerce")
ToNumeric(c) ==
    IF c.t = "num" THEN Some(c.v)
    ELSE IF c.t = "text" THEN ParseNumber(c.s)
    ELSE Null

\* Series.fillna(0)
FillNa0(o) == IF o = Null THEN 0 ELSE o[1]

\* the value of a text column (item_id, id) for one cell
CellText(c) ==
    IF c.t = "text" THEN c.s
    ELSE IF c.t = "num" THEN ToString(c.v)
    ELSE NoneStr

(***************************************************************************)
(* invent2.transform.  A raw table is [hdr, rows]: hdr the header texts in  *)
(* column order, rows a sequence of rows, each a sequence of cells aligned  *)
(* with hdr.  A transformed table is [hasId, rows], hasId telling whether   *)
(* the table has an "id" column.                                           *)
(***************************************************************************)
ColIdxs(cols, name) == {i \in 1..Len(cols) : cols[i] = name}
HasCol(cols, name)  == ColIdxs(cols, name) # {}
\* df[name] is a DataFrame, not a Series, when two columns carry the name
DupCol(cols, name)  == Cardinality(ColIdxs(cols, name)) > 1
CellOf(cols, r, name) == r[CHOOSE i \in ColIdxs(cols, name) : TRUE]

\* a plausible slip: qtd_wms left out of the required columns
MissingRequiredErpOnly(cols) == {c \in {"qtd_erp"} : ~HasCol(cols, c)}

\* required = ["qtd_erp", "qtd_wms"]; missing = [c for c in required if c not in df.columns]
MissingRequired(cols) == {c \in {"qtd_erp", "qtd_wms"} : ~HasCol(cols, c)}

\* transform raises: the ValueError of the validation, the TypeError of
\* pd.to_numeric on a duplicated column, the KeyError of df[cols_final]
TransformRaises(raw) ==
    LET cols == normalize_cols(raw.hdr)
    IN  \/ MissingRequired(cols) # {}
        \/ \E c \in {"qtd_erp", "qtd_wms", "qtd_dif", "valor_dif"} : DupCol(cols, c)
        \/ ~HasCol(cols, "item_id")

\* the exception transform raises, Null when it returns: the ValueError of the
\* validation carries the missing required columns, in the order of
\* "required", and list(df.columns)
TransformError(raw) ==
    LET cols == normalize_cols(raw.hdr)
        IsMissing(c) == c \in MissingRequired(cols)
    IN  IF MissingRequired(cols) # {}
        THEN Some([type |-> "ValueError",
                   missing |-> SelectSeq(<<"qtd_erp", "qtd_wms">>, IsMissing),
                   found |-> cols])
        ELSE IF \E c \in {"qtd_erp", "qtd_wms", "qtd_dif", "valor_dif"} : DupCol(cols, c)
        THEN Some([type |-> "TypeError"])
        ELSE IF ~HasCol(cols, "item_id") THEN Some([type |-> "KeyError"])
        ELSE Null

\* df["qtd_erp"], df["qtd_wms"] after pd.to_numeric(..., errors="coerce").fillna(0)
QtdErp(cols, r) == FillNa0(ToNumeric(CellOf(cols, r, "qtd_erp")))
QtdWms(cols, r) == FillNa0(ToNumeric(CellOf(cols, r, "qtd_wms")))

\* the source's own qtd_dif after pd.to_numeric(..., errors="coerce"); Null
\* also when the table has no such column
SourceQtdDif(cols, r) ==
    IF HasCol(cols, "qtd_dif") THEN ToNumeric(CellOf(cols, r, "qtd_dif")) ELSE Null

\* a plausible slip: keep the source's difference when it has one
QtdDifTrustSource(cols, r) ==
    IF SourceQtdDif(cols, r) # Null THEN SourceQtdDif(cols, r)[1]
    ELSE QtdWms(cols, r) - QtdErp(cols, r)

\* df["qtd_dif_calc"] = df["qtd_wms"] - df["qtd_erp"]; df["qtd_dif"] = df["qtd_dif_calc"]
QtdDif(cols, r) == QtdWms(cols, r) - QtdErp(cols, r)

\* df["flag_inconsistencia"]: computed only when the source has a qtd_dif
\* column; NaN != x is True.  Quantities are integers, so round(2) keeps them.
FlagInconsistencia(cols, r) ==
    IF ~HasCol(cols, "qtd_dif") THEN Null
    ELSE LET src == SourceQtdDif(cols, r)
         IN  Some(src = Null \/ src[1] # (QtdWms(cols, r) - QtdErp(cols, r)))

ValorDif(cols, r) ==
    IF HasCol(cols, "valor_dif") THEN ToNumeric(CellOf(cols, r, "valor_dif")) ELSE Null

\* one row of df before the projection df[cols_final]
TransformRow(cols, r, dt_inv, loja, now) ==
    [dt_inventario |-> dt_inv,
     id            |-> IF HasCol(cols, "id") THEN CellText(CellOf(cols, r, "id")) ELSE NoneStr,
     item_id       |-> CellText(CellOf(cols, r, "item_id")),
     qtd_erp       |-> QtdErp(cols, r),
     qtd_wms       |-> QtdWms(cols, r),
     qtd_dif       |-> QtdDif(cols, r),
     valor_dif     |-> ValorDif(cols, r),
     loja          |-> loja,
     ingestion_ts  |-> now,
     flag_inconsistencia |-> FlagInconsistencia(cols, r)]

\* the columns of cols_final that the model carries (descricao, status and
\* motivo are text passed through or filled with NA; they are left out)
ColsFinal == {"dt_inventario", "id", "item_id", "qtd_erp", "qtd_wms", "qtd_dif",
              "valor_dif", "loja", "ingestion_ts"}
Project(row) == [c \in ColsFinal |-> row[c]]

\* a plausible slip: the rows without item_id dropped (dropna)
transformDropNa(raw, dt_inv, loja, now) ==
    LET cols == normalize_cols(raw.hdr)
        HasItem(row) == row.item_id # NoneStr
    IN  [hasId |-> HasCol(cols, "id"),
         rows  |-> SelectSeq([i \in 1..Len(raw.rows) |->
                                Project(TransformRow(cols, raw.rows[i], dt_inv, loja, now))],
                             HasItem)]

\* transform(df, dt_inv, loja) when it does not raise; now is pd.Timestamp.now()
transform(raw, dt_inv, loja, now) ==
    LET cols == normalize_cols(raw.hdr)
    IN  [hasId |-> HasCol(cols, "id"),
         rows  |-> [i \in 1..Len(raw.rows) |->
                      Project(TransformRow(cols, raw.rows[i], dt_inv, loja, now))]]

(***************************************************************************)
(* The merge of invent2.run_pipeline: concat, sort, drop_duplicates,       *)
(* 12-month window, metrics.                                               *)
(***************************************************************************)
EmptyTable == [hasId |-> FALSE, rows |-> <<>>]

\* the columns a frame lacks (dif_abs, acuracia exist only in the history
\* written by an earlier run) are NaN after pd.concat
AlignRow(row) ==
    IF "acuracia" \in DOMAIN row THEN row
    ELSE row @@ [dif_abs |-> Null, acuracia |-> Null]

RECURSIVE FlattenFrames(_)
FlattenFrames(fs) ==
    IF Len(fs) = 0 THEN <<>> ELSE Head(fs).rows \o FlattenFrames(Tail(fs))

\* df = pd.concat(frames, ignore_index=True); df_all = pd.concat([hist, df], ignore_index=True)
Concat(h, fs) ==
    LET all == h.rows \o FlattenFrames(fs)
    IN  [hasId |-> h.hasId \/ \E i \in 1..Len(fs) : fs[i].hasId,
         rows  |-> [i \in 1..Len(all) |-> AlignRow(all[i])]]

\* a plausible slip: "item_id" left out of the subset
DedupKeyNoItem(r, hasId) ==
    IF hasId THEN <<r.dt_inventario, r.id, r.loja>> ELSE <<r.dt_inventario, r.loja>>

\* subset = ["dt_inventario", "loja", "item_id"], with "id" inserted when
\* the combined table has an id column; NaN keys compare equal in drop_duplicates
DedupKey(r, hasId) ==
    IF hasId THEN <<r.dt_inventario, r.id, r.loja, r.item_id>>
    ELSE <<r.dt_inventario, r.loja, r.item_id>>

\* a stable sort by ingestion_ts: the smallest timestamp first, the earlier
\* row first among equal timestamps
RECURSIVE StableSort(_, _)
StableSort(rows, S) ==
    IF S = {} THEN <<>>
    ELSE LET i == CHOOSE i \in S : \A j \in S :
                      \/ rows[i].ingestion_ts < rows[j].ingestion_ts
                      \/ rows[i].ingestion_ts = rows[j].ingestion_ts /\ i <= j
         IN  <<rows[i]>> \o StableSort(rows, S \ {i})

\* two rows the sort may exchange with an effect on drop_duplicates: equal
\* ingestion_ts and equal dedup key
SameSlot(r1, r2, hasId) ==
    r1.ingestion_ts = r2.ingestion_ts /\ DedupKey(r1, hasId) = DedupKey(r2, hasId)

RECURSIVE SlotOrders(_, _, _, _)
SlotOrders(sorted, pos, unused, hasId) ==
    IF pos > Len(sorted) THEN {<<>>}
    ELSE UNION {{<<sorted[i]>> \o t : t \in SlotOrders(sorted, pos + 1, unused \ {i}, hasId)} :
                i \in {k \in unused : SameSlot(sorted[k], sorted[pos], hasId)}}

\* df_all.sort_values("ingestion_ts"): the default sort (quicksort) is not
\* stable, so which of several rows with equal ingestion_ts comes last is
\* not determined.  The model lets rows with equal ingestion_ts and equal
\* dedup key come out in any order and keeps the other ties in concat order.
SortValues(rows, hasId) ==
    LET sorted == StableSort(rows, 1..Len(rows))
    IN  SlotOrders(sorted, 1, 1..Len(sorted), hasId)

RECURSIVE KeepIdx(_, _, _)
KeepIdx(rows, keep, i) ==
    IF i > Len(rows) THEN <<>>
    ELSE (IF keep[i] THEN <<rows[i]>> ELSE <<>>) \o KeepIdx(rows, keep, i + 1)
\* the rows of a sequence whose index satisfies keep, in order
SelectIdx(rows, keep) == KeepIdx(rows, keep, 1)

\* a plausible slip: keep="first"
DropDuplicatesKeepFirst(rows, hasId) ==
    SelectIdx(rows, [i \in 1..Len(rows) |->
        \A j \in 1..(i - 1) : DedupKey(rows[j], hasId) # DedupKey(rows[i], hasId)])

\* a plausible slip: the deduplication left out
DropDuplicatesNone(rows, hasId) == rows

\* .drop_duplicates(subset=subset, keep="last")
DropDuplicates(rows, hasId) ==
    SelectIdx(rows, [i \in 1..Len(rows) |->
        \A j \in (i + 1)..Len(rows) : DedupKey(rows[j], hasId) # DedupKey(rows[i], hasId)])

\* cutoff = pd.Timestamp.now().normalize() - pd.DateOffset(months=12)
Cutoff(now) == SubMonths(Normalize(now), WindowMonths)

\* df_all = df_all[df_all["dt_inventario"] >= cutoff]
WindowFilter(rows, now) ==
    SelectIdx(rows, [i \in 1..Len(rows) |-> TsLE(Cutoff(now), rows[i].dt_inventario)])

\* a plausible slip: the zero divisor not replaced
ReplaceZeroKept(w) == Some(w)

\* qtd_wms.replace({0: pd.NA})
ReplaceZeroNA(w) == IF w = 0 THEN Null ELSE Some(w)

\* 1 - dif_abs / divisor, as a fraction [n, d] with d > 0; NA when the
\* divisor is NA and, with a zero divisor, IEEE arithmetic: 0/0 is NaN and
\* x/0 is +inf, so 1 - x/0 is -inf (written [n |-> -1, d |-> 0])
OneMinusRatio(dif_abs, divisor) ==
    IF divisor = Null THEN Null
    ELSE LET w == divisor[1]
         IN  IF w = 0 THEN (IF dif_abs = 0 THEN Null ELSE Some([n |-> -1, d |-> 0]))
             ELSE IF w > 0 THEN Some([n |-> w - dif_abs, d |-> w])
             ELSE Some([n |-> dif_abs - w, d |-> -w])

\* Series.clip(lower=0, upper=1); NA stays NA
Clip01(a) ==
    IF a = Null THEN Null
    ELSE IF a[1].n < 0 THEN Some([n |-> 0, d |-> 1])
    ELSE IF a[1].n > a[1].d THEN Some([n |-> 1, d |-> 1])
    ELSE a

\* dif_abs and acuracia of one row
Metrics(row) ==
    LET da == Abs(row.qtd_dif)
    IN  [row EXCEPT !.dif_abs = Some(da),
                    !.acuracia = Clip01(OneMinusRatio(da, ReplaceZeroNA(row.qtd_wms)))]

(***************************************************************************)
(* utils.write_output and the history CSV.                                 *)
(***************************************************************************)
Pad2(n) == IF n < 10 THEN "0" \o ToString(n) ELSE ToString(n)
\* str(pd.Timestamp) of a calendar timestamp
TsStr(t) == ToString(t.y) \o "-" \o Pad2(t.m) \o "-" \o Pad2(t.d) \o " " \o Pad2(t.h) \o ":00:00"

\* _df_to_sheet_values: the header, then one list per row; NaN becomes "",
\* a Timestamp becomes its string, anything else is written as it is
SheetRow(row) ==
    [c \in DOMAIN row |->
        IF c = "dt_inventario" THEN TsStr(row[c])
        ELSE IF c \in {"valor_dif", "dif_abs", "acuracia"}
             THEN (IF row[c] = Null THEN "" ELSE row[c][1])
        ELSE IF c \in {"id", "item_id", "loja"}
             THEN (IF row[c] = NoneStr THEN "" ELSE row[c])
        ELSE row[c]]
df_to_sheet_values(t) ==
    <<"header">> \o [i \in 1..Len(t.rows) |-> SheetRow(t.rows[i])]

\* values().clear(range="A:ZZ")
SheetClear(sheetRows) == <<>>
\* values().update(range="A1", body={"values": values}): the cells covered by
\* values are overwritten, the rows below them are left as they were
SheetUpdate(sheetRows, values) ==
    values \o SubSeq(sheetRows, Len(values) + 1, Len(sheetRows))

\* a plausible slip: the new values written over the old content
PublishNoClear(sheetRows, values) ==
    [rows |-> SheetUpdate(sheetRows, values), calls |-> <<"update">>]

\* values().clear(...).execute() and then values().update(...).execute(): the
\* rows of the destination afterwards, and the calls in the order issued
Publish(sheetRows, values) ==
    [rows |-> SheetUpdate(SheetClear(sheetRows), values), calls |-> <<"clear", "update">>]

\* a text column read back by pd.read_csv: when every non-empty value of the
\* column denotes a number the column is numeric ("007" comes back as 7)
CsvTextColumn(rows, c) ==
    LET vals == {rows[i][c] : i \in 1..Len(rows)} \ {NoneStr}
        numeric == vals # {} /\ \A v \in vals : ParseNumber(v) # Null
    IN  [i \in 1..Len(rows) |->
            IF numeric /\ rows[i][c] # NoneStr THEN ToString(ParseNumber(rows[i][c])[1])
            ELSE rows[i][c]]

\* df.to_csv(hist_source, index=False) followed, in the next run, by
\* pd.read_csv(HIST_SOURCE, parse_dates=["dt_inventario", "ingestion_ts"])
CsvRoundTrip(t) ==
    LET ids   == CsvTextColumn(t.rows, "id")
        items == CsvTextColumn(t.rows, "item_id")
        lojas == CsvTextColumn(t.rows, "loja")
    IN  [hasId |-> t.hasId,
         rows  |-> [i \in 1..Len(t.rows) |->
                      [t.rows[i] EXCEPT !.id = ids[i], !.item_id = items[i], !.loja = lojas[i]]]]

(***************************************************************************)
(* Inputs of a run: the files of the input folder, the history CSV, the     *)
(* environment and the wall clock.                                         *)
(***************************************************************************)
RawItemErpWms   == <<"Item", "Qtd. ERP", "Qtd. WMS">>
RawWithDif      == <<"Item", "Qtd. ERP", "Qtd. WMS", "Qtd. Dif.">>
RawFull         == <<"ID", " item ", "QTD ERP", "Qtd_WMS", "Qtd. Dif.?", "Valor Dif.">>
RawNoErp        == <<"Item", "Descri{}o", "Qtd. WMS">>
RawNoQtd        == <<"Item", "Saldo">>

File(name, readable, hdr, rows) ==
    [name |-> name, readable |-> readable, raw |-> [hdr |-> hdr, rows |-> rows]]

\* the files a listing is drawn from
FileSet ==
    { File("Contagem050125.xlsx", TRUE, RawItemErpWms,
           << <<Text("A"), Num(10), Num(8)>> >>),
      File("Contagem050625.xlsx", TRUE, RawWithDif,
           << <<Text("A"), Num(10), Num(10), Num(5)>>,
              <<Text("B"), Num(4), Num(0), Num(-4)>>,
              <<Text("A"), Num(7), Num(7), Num(0)>>,
              <<Empty, Num(2), Num(2), Num(0)>> >>),
      File("Contagem050625_v2.xlsx", TRUE, RawItemErpWms,
           << <<Text("A"), Num(9), Num(9)>> >>),
      File("inv_2025-01-05.xlsx", TRUE, RawItemErpWms,
           << <<Text("A"), Num(10), Num(8)>> >>),
      File("inv_2025-06-05.xlsx", TRUE, RawItemErpWms,
           << <<Text("A"), Num(10), Num(10)>> >>),
      File("Contagem050125_LOJA-rrp.xlsx", TRUE, RawFull,
           << <<Num(1), Text("A"), Text("abc"), Num(-5), Text("x"), Num(7)>>,
              <<Num(2), Text("A"), Text("20"), Num(3), Num(-17), Text("1.234,56")>>,
              <<Num(2), Text("A"), Num(1), Num(3), Empty, Empty>>,
              <<Num(3), Text("B"), Text("12,5"), Num(7), Empty, Text("7,5")>> >>),
      File("Contagem060625.xlsx", TRUE, RawNoErp,
           << <<Text("A"), Text("piso"), Num(8)>> >>),
      File("Contagem080625.xlsx", TRUE, RawNoQtd,
           << <<Text("A"), Num(1)>> >>),
      File("Contagem070625.xlsx", FALSE, <<>>, <<>>) }

RECURSIVE Listings(_)
\* the sequences of at most n distinct files
Listings(n) ==
    IF n = 0 THEN {<<>>}
    ELSE LET shorter == Listings(n - 1)
         IN  shorter \cup {Append(l, f) : l \in {k \in shorter : Len(k) = n - 1},
                                          f \in FileSet}
DistinctListings(n) == {l \in Listings(n) : Cardinality(Range(l)) = Len(l)}

\* ingestion_ts of the rows of the history: earlier runs
HistTicks == {1, 2}
\* the clock at the start of the run
RunStart == Cardinality(HistTicks) + 1

HistRow(dt, item, erp, wms, ts) ==
    [dt_inventario |-> dt, id |-> NoneStr, item_id |-> item, qtd_erp |-> erp,
     qtd_wms |-> wms, qtd_dif |-> wms - erp, valor_dif |-> Null, loja |-> NoneStr,
     ingestion_ts |-> ts, dif_abs |-> Some(Abs(wms - erp)),
     acuracia |-> Clip01(OneMinusRatio(Abs(wms - erp), ReplaceZeroNA(wms)))]

\* the rows a history is drawn from, in the order of the CSV
HistRows ==
    << HistRow(Ts(2025, 1, 5, 0), "A", 10, 5, 1),
       HistRow(Ts(2024, 5, 1, 0), "A", 6, 6, 1),
       HistRow(Ts(2025, 1, 5, 0), "B", 3, 4, 2) >>

\* the histories: at most MaxHist rows of HistRows, in their order
Histories ==
    {[hasId |-> FALSE, rows |-> SelectIdx(HistRows, [i \in 1..Len(HistRows) |-> i \in S])] :
        S \in {T \in SUBSET (1..Len(HistRows)) : Cardinality(T) <= MaxHist}}

\* the history CSV: absent, or holding what an earlier run wrote
HistFiles ==
    {[exists |-> FALSE, table |-> EmptyTable]} \cup
    {[exists |-> TRUE, table |-> h] : h \in Histories}
\* the history CSV of a configuration: there is no file to find when
\* HIST_SOURCE is not set
HistFilesOf(c) ==
    IF c.HIST_SOURCE THEN HistFiles ELSE {[exists |-> FALSE, table |-> EmptyTable]}

\* the environment: which variables are set, and the value of DESTINO
\* (NoneStr when unset)
Config(pasta, destino, sheetId, folderOut, histSource) ==
    [PASTA_ID |-> pasta, DESTINO |-> destino, SHEET_OUTPUT_ID |-> sheetId,
     DRIVE_FOLDER_OUTPUT |-> folderOut, HIST_SOURCE |-> histSource]
Configs ==
    { Config(TRUE, "sheets", TRUE, FALSE, TRUE),
      Config(FALSE, "sheets", TRUE, FALSE, TRUE),
      Config(TRUE, NoneStr, FALSE, FALSE, TRUE),
      Config(TRUE, "csv", FALSE, TRUE, FALSE) }

\* the wall clock of the run: inside the year after the data, long after
\* it, and before the latest file date
Todays == {Ts(2025, 6, 10, 9), Ts(2026, 11, 1, 9), Ts(2025, 1, 10, 9)}
\* the wall clocks a configuration is run at: all of them for the complete
\* configuration, one for the others
TodaysOf(c) ==
    IF c = Config(TRUE, "sheets", TRUE, FALSE, TRUE) THEN Todays ELSE {Ts(2025, 6, 10, 9)}

\* what the destination sheet holds before the run
OldSheet == <<"header", "old row", "old row", "old row", "old row">>

(***************************************************************************)
(* State.                                                                  *)
(***************************************************************************)
VARIABLES
    cfg,       \* the environment variables
    today,     \* the wall clock (pd.Timestamp.now(), dt.date.today())
    clock,     \* the next value of ingestion_ts
    files,     \* the listing of the input folder
    idx,       \* position of the loop over files
    frames,    \* the transformed tables
    histFile,  \* the history CSV at HIST_SOURCE
    hist,      \* the history as loaded by the run
    df_all,    \* the combined table
    pc,        \* position of run_pipeline
    sheet,     \* rows of the destination sheet
    resumo,    \* the summary returned, Null before the return
    fl_pc,     \* position of the call of filter_last_months
    fl_df,     \* its argument: the dates of the table
    fl_out,    \* its result
    calls,     \* the Sheets API calls issued so far, in order
    c_files,   \* core pipeline: the listing of the input folder
    c_idx,     \* core pipeline: position of the loop over the listing
    c_dfs,     \* core pipeline: the tables read so far
    c_df,      \* core pipeline: df_raw, then df_final
    c_pc,      \* core pipeline: position of run_pipeline
    fn_pc,     \* position of the call of a function on a text cell
    fn_arg,    \* its argument
    fn_out     \* its result

vars == <<cfg, today, clock, files, idx, frames, histFile, hist, df_all, pc,
          sheet, resumo, fl_pc, fl_df, fl_out, calls, c_files, c_idx, c_dfs, c_df,
          c_pc, fn_pc, fn_arg, fn_out>>

pipeVars   == <<cfg, today, clock, files, idx, frames, histFile, hist, df_all, pc,
                sheet, resumo>>
filterVars == <<fl_pc, fl_df, fl_out>>
coreVars   == <<c_files, c_idx, c_dfs, c_df, c_pc>>
fnVars     == <<fn_pc, fn_arg, fn_out>>

\* the state of the programs that a run of one of them leaves alone
CoreIdle ==
    /\ c_files = <<>>
    /\ c_idx = 1
    /\ c_dfs = <<>>
    /\ c_df = [hdr |-> <<>>, rows |-> <<>>]
    /\ c_pc = "idle"
FnIdle ==
    /\ fn_pc = "idle"
    /\ fn_arg = ""
    /\ fn_out = <<>>

Init ==
    /\ cfg \in Configs
    /\ today \in TodaysOf(cfg)
    /\ clock = RunStart
    /\ files \in DistinctListings(MaxFiles)
    /\ idx = 1
    /\ frames = <<>>
    /\ histFile \in HistFilesOf(cfg)
    /\ hist = EmptyTable
    /\ df_all = EmptyTable
    /\ pc = "start"
    /\ sheet = OldSheet
    /\ resumo = Null
    /\ fl_pc = "idle"
    /\ fl_df = <<>>
    /\ fl_out = <<>>
    /\ calls = <<>>
    /\ CoreIdle
    /\ FnIdle

(***************************************************************************)
(* invent2.run_pipeline, one action per stage.                             *)
(***************************************************************************)
\* if not PASTA_ID: raise RuntimeError; files = list_gsheets_in_folder(PASTA_ID)
Start ==
    /\ pc = "start"
    /\ pc' = IF cfg.PASTA_ID THEN "loop" ELSE "raised"
    /\ UNCHANGED <<cfg, today, clock, files, idx, frames, histFile, hist, df_all,
                   sheet, resumo, filterVars, calls, coreVars, fnVars>>

\* the body of the try block raises for this file: read_gsheet_to_df fails
\* or transform raises (parse_date_store raises for no name)
FailingFiles == {f \in FileSet : ~f.readable \/ TransformRaises(f.raw)}
FileFails(f) == f \in FailingFiles

\* dt_inv, loja = parse_date_store(nome); df_raw = read_gsheet_to_df(file_id);
\* df_tr = transform(df_raw, dt_inv, loja)
FileFrame(f, hoje, now) ==
    LET p == parse_date_store(f.name, hoje)
    IN  transform(f.raw, p.d, p.loja, now)

\* a plausible slip: no try/except around the body of the loop
ProcessFileNoIsolation ==
    /\ pc = "loop"
    /\ idx <= Len(files)
    /\ \/ /\ ~FileFails(files[idx])
          /\ frames' = Append(frames, FileFrame(files[idx], Normalize(today), clock))
          /\ pc' = pc
       \/ /\ FileFails(files[idx])
          /\ frames' = frames
          /\ pc' = "raised"
    /\ idx' = idx + 1
    /\ clock' = clock + 1
    /\ UNCHANGED <<cfg, today, files, histFile, hist, df_all, sheet, resumo, filterVars, calls, coreVars, fnVars>>

\* one iteration of "for file in files": the frame is appended, or the
\* exception is caught and logged
ProcessFile ==
    /\ pc = "loop"
    /\ idx <= Len(files)
    /\ \/ /\ ~FileFails(files[idx])
          /\ frames' = Append(frames, FileFrame(files[idx], Normalize(today), clock))
       \/ /\ FileFails(files[idx])
          /\ frames' = frames
    /\ idx' = idx + 1
    /\ clock' = clock + 1
    /\ UNCHANGED <<cfg, today, files, histFile, hist, df_all, pc, sheet, resumo, filterVars, calls, coreVars, fnVars>>

\* a plausible slip: the output is written before the test "if not frames"
NoValidFilesPublishes ==
    /\ pc = "loop"
    /\ idx > Len(files)
    /\ frames = <<>>
    /\ sheet' = Publish(sheet, df_to_sheet_values(df_all)).rows
    /\ calls' = calls \o Publish(sheet, df_to_sheet_values(df_all)).calls
    /\ resumo' = Some([arquivos_encontrados |-> Len(files), arquivos_processados |-> 0,
                       linhas_finais |-> 0, data_min |-> Null, data_max |-> Null])
    /\ pc' = "done"
    /\ UNCHANGED <<cfg, today, clock, files, idx, frames, histFile, hist, df_all,
                   filterVars, coreVars, fnVars>>

\* if not frames: return the summary with arquivos_processados = 0
NoValidFiles ==
    /\ pc = "loop"
    /\ idx > Len(files)
    /\ frames = <<>>
    /\ resumo' = Some([arquivos_encontrados |-> Len(files), arquivos_processados |-> 0,
                       linhas_finais |-> 0, data_min |-> Null, data_max |-> Null])
    /\ pc' = "done"
    /\ UNCHANGED <<cfg, today, clock, files, idx, frames, histFile, hist, df_all,
                   sheet, filterVars, calls, coreVars, fnVars>>

\* hist = pd.read_csv(HIST_SOURCE, ...) when HIST_SOURCE is set and the file
\* exists, else an empty table
LoadedHistory == IF cfg.HIST_SOURCE /\ histFile.exists THEN histFile.table ELSE EmptyTable

\* a plausible slip: the concatenation not held back until the loop is over
ConcatHistoryEarly ==
    /\ pc = "loop"
    /\ frames # <<>>
    /\ hist' = LoadedHistory
    /\ df_all' = Concat(LoadedHistory, frames)
    /\ pc' = "dedup"
    /\ UNCHANGED <<cfg, today, clock, files, idx, frames, histFile, sheet, resumo, filterVars, calls, coreVars, fnVars>>

\* df = pd.concat(frames); hist = ...; df_all = pd.concat([hist, df])
ConcatHistory ==
    /\ pc = "loop"
    /\ idx > Len(files)
    /\ frames # <<>>
    /\ hist' = LoadedHistory
    /\ df_all' = Concat(LoadedHistory, frames)
    /\ pc' = "dedup"
    /\ UNCHANGED <<cfg, today, clock, files, idx, frames, histFile, sheet, resumo, filterVars, calls, coreVars, fnVars>>

\* df_all.sort_values("ingestion_ts").drop_duplicates(subset=subset, keep="last")
Dedup ==
    /\ pc = "dedup"
    /\ \E sorted \in SortValues(df_all.rows, df_all.hasId) :
          df_all' = [df_all EXCEPT !.rows = DropDuplicates(sorted, df_all.hasId)]
    /\ pc' = "window"
    /\ UNCHANGED <<cfg, today, clock, files, idx, frames, histFile, hist, sheet,
                   resumo, filterVars, calls, coreVars, fnVars>>

\* cutoff = pd.Timestamp.now().normalize() - pd.DateOffset(months=12);
\* df_all = df_all[df_all["dt_inventario"] >= cutoff]
Window ==
    /\ pc = "window"
    /\ df_all' = [df_all EXCEPT !.rows = WindowFilter(df_all.rows, today)]
    /\ pc' = "metrics"
    /\ UNCHANGED <<cfg, today, clock, files, idx, frames, histFile, hist, sheet,
                   resumo, filterVars, calls, coreVars, fnVars>>

\* dif_abs, acuracia
ComputeMetrics ==
    /\ pc = "metrics"
    /\ df_all' = [df_all EXCEPT !.rows = [i \in 1..Len(df_all.rows) |-> Metrics(df_all.rows[i])]]
    /\ pc' = "write"
    /\ UNCHANGED <<cfg, today, clock, files, idx, frames, histFile, hist, sheet,
                   resumo, filterVars, calls, coreVars, fnVars>>

\* DESTINO or "sheets"
Destino == IF cfg.DESTINO = NoneStr THEN "sheets" ELSE cfg.DESTINO

\* write_output(df_all, DESTINO or "sheets")
WriteOutput ==
    /\ pc = "write"
    /\ \/ /\ Destino = "sheets"
          /\ ~cfg.SHEET_OUTPUT_ID /\ ~cfg.DRIVE_FOLDER_OUTPUT
          /\ pc' = "raised"
          /\ UNCHANGED <<sheet, histFile, calls>>
       \/ /\ Destino = "sheets"
          /\ cfg.SHEET_OUTPUT_ID \/ cfg.DRIVE_FOLDER_OUTPUT
          /\ sheet' = Publish(sheet, df_to_sheet_values(df_all)).rows
          /\ calls' = calls \o Publish(sheet, df_to_sheet_values(df_all)).calls
          /\ histFile' = IF cfg.HIST_SOURCE
                         THEN [exists |-> TRUE, table |-> CsvRoundTrip(df_all)]
                         ELSE histFile
          /\ pc' = "return"
       \/ /\ Destino # "sheets"
          /\ histFile' = IF cfg.HIST_SOURCE
                         THEN [exists |-> TRUE, table |-> CsvRoundTrip(df_all)]
                         ELSE histFile
          /\ sheet' = sheet
          /\ calls' = calls
          /\ pc' = "return"
    /\ UNCHANGED <<cfg, today, clock, files, idx, frames, hist, df_all, resumo, filterVars,
                   coreVars, fnVars>>

\* Series.min() / Series.max() of dt_inventario: NaT for an empty table
DataMin(rows) ==
    IF Len(rows) = 0 THEN Null
    ELSE Some(CHOOSE t \in {rows[i].dt_inventario : i \in 1..Len(rows)} :
                 \A i \in 1..Len(rows) : TsLE(t, rows[i].dt_inventario))
DataMax(rows) ==
    IF Len(rows) = 0 THEN Null
    ELSE Some(MaxTs({rows[i].dt_inventario : i \in 1..Len(rows)}))

\* resumo = {...}; return resumo
Return ==
    /\ pc = "return"
    /\ resumo' = Some([arquivos_encontrados |-> Len(files),
                       arquivos_processados |-> Len(frames),
                       linhas_finais |-> Len(df_all.rows),
                       data_min |-> DataMin(df_all.rows),
                       data_max |-> DataMax(df_all.rows)])
    /\ pc' = "done"
    /\ UNCHANGED <<cfg, today, clock, files, idx, frames, histFile, hist, df_all,
                   sheet, filterVars, calls, coreVars, fnVars>>

Next ==
    \/ Start
    \/ ProcessFile
    \/ NoValidFiles
    \/ ConcatHistory
    \/ Dedup
    \/ Window
    \/ ComputeMetrics
    \/ WriteOutput
    \/ Return

Spec == Init /\ [][Next]_vars

(***************************************************************************)
(* src/core/transform.filter_last_months, applied to a table given by its   *)
(* date column.  The rows are timestamps with a time of day; NaT rows are   *)
(* removed by coerce_datetime before the call and are not among the inputs. *)
(***************************************************************************)
\* a plausible slip: the reference date not truncated to midnight
FilterNoNormalize(dates, months) ==
    IF Len(dates) = 0 THEN dates
    ELSE LET cutoff == SubMonths(MaxTs(Range(dates)), months)
         IN  SelectIdx(dates, [i \in 1..Len(dates) |-> TsLE(cutoff, dates[i])])

\* ref = df[date_col].max(); cutoff = ref.normalize() - pd.DateOffset(months=months);
\* return df[df[date_col] >= cutoff]
filter_last_months(dates, months) ==
    IF Len(dates) = 0 THEN dates
    ELSE LET ref    == MaxTs(Range(dates))
             cutoff == SubMonths(Normalize(ref), months)
         IN  SelectIdx(dates, [i \in 1..Len(dates) |-> TsLE(cutoff, dates[i])])

\* the dates the tables of the filter are drawn from: two maxima (one on a
\* leap day), the days twelve months before them, the days before those
FilterDates ==
    { Ts(2025, 6, 5, 12), Ts(2024, 6, 5, 0), Ts(2024, 6, 5, 12), Ts(2024, 6, 4, 12),
      Ts(2024, 2, 29, 12), Ts(2023, 2, 28, 0), Ts(2023, 2, 27, 12), Ts(2023, 3, 1, 0) }

RECURSIVE SeqsUpTo(_, _)
\* the sequences over S of length at most n
SeqsUpTo(S, n) ==
    IF n = 0 THEN {<<>>}
    ELSE LET shorter == SeqsUpTo(S, n - 1)
         IN  shorter \cup {Append(q, x) : q \in {k \in shorter : Len(k) = n - 1}, x \in S}

InitFilter ==
    /\ cfg = Config(TRUE, "sheets", TRUE, FALSE, TRUE)
    /\ today = Ts(2025, 6, 10, 9)
    /\ clock = RunStart
    /\ files = <<>>
    /\ idx = 1
    /\ frames = <<>>
    /\ histFile = [exists |-> FALSE, table |-> EmptyTable]
    /\ hist = EmptyTable
    /\ df_all = EmptyTable
    /\ pc = "idle"
    /\ sheet = OldSheet
    /\ resumo = Null
    /\ fl_pc = "call"
    /\ fl_df \in SeqsUpTo(FilterDates, MaxDates)
    /\ fl_out = <<>>
    /\ calls = <<>>
    /\ CoreIdle
    /\ FnIdle

\* df = filter_last_months(df, "data_contagem", months=12)
ApplyFilter ==
    /\ fl_pc = "call"
    /\ fl_out' = filter_last_months(fl_df, DefaultMonths)
    /\ fl_pc' = "returned"
    /\ UNCHANGED <<fl_df, pipeVars, calls, coreVars, fnVars>>

NextFilter == ApplyFilter

SpecFilter == InitFilter /\ [][NextFilter]_vars

(***************************************************************************)
(* src/core/transform.smart_to_float on one cell.  A parsed number is the   *)
(* exact decimal fraction [n, d], d a power of ten.                        *)
(***************************************************************************)
HasChar(s, ch) == \E i \in 1..Len(s) : CharAt(s, i) = ch

\* str.replace(old, new, regex=False) for a one-character old
RECURSIVE ReplaceChar(_, _, _)
ReplaceChar(s, old, new) ==
    IF Len(s) = 0 THEN ""
    ELSE (IF CharAt(s, 1) = old THEN new ELSE CharAt(s, 1))
             \o ReplaceChar(SubSeq(s, 2, Len(s)), old, new)

\* pd.to_numeric(text, errors="coerce") for decimal texts: surrounding
\* blanks, an optional sign, digits with at most one decimal point and at
\* least one digit.  Exponents, "inf" and hexadecimal texts are not among
\* the inputs; any other text gives NaN.
ParseFloat(text) ==
    LET s    == Strip(text, {" "})
        neg  == Len(s) > 0 /\ CharAt(s, 1) = "-"
        body == IF Len(s) > 0 /\ CharAt(s, 1) \in {"-", "+"} THEN SubSeq(s, 2, Len(s)) ELSE s
        dots == {i \in 1..Len(body) : CharAt(body, i) = "."}
        dot  == IF dots = {} THEN Len(body) + 1 ELSE CHOOSE i \in dots : TRUE
        ip   == SubSeq(body, 1, dot - 1)
        fp   == SubSeq(body, dot + 1, Len(body))
    IN  IF Cardinality(dots) > 1 \/ ~AllDigits(ip \o fp) THEN Null
        ELSE Some([n |-> (IF neg THEN -1 ELSE 1) * DigitsValue(ip \o fp, 0),
                   d |-> 10 ^ Len(fp)])

\* series.astype(str).str.strip() on one cell
CellStr(c) ==
    Strip(IF c.t = "text" THEN c.s ELSE IF c.t = "num" THEN ToString(c.v) ELSE "nan", {" "})

\* a plausible slip: the comma turned into a point, the points kept
SmartTextCommaOnly(s) == ReplaceChar(s, ",", ".")

\* the text after the two masked replacements: mask_both, then mask_comma
SmartText(s) ==
    IF HasChar(s, ".") /\ HasChar(s, ",") THEN ReplaceChar(ReplaceChar(s, ".", ""), ",", ".")
    ELSE IF HasChar(s, ",") THEN ReplaceChar(s, ",", ".")
    ELSE s

\* smart_to_float on one cell: "", "None", "nan" and "NaN" become None
smart_to_float(c) ==
    LET s == CellStr(c)
    IN  IF s \in {"", "None", "nan", "NaN"} THEN Null ELSE ParseFloat(SmartText(s))

\* the characters the texts of the cells are made of
TextAlphabet == {"1", "5", ".", ",", "-", "a"}

RECURSIVE TextsUpTo(_)
\* the texts over TextAlphabet of length at most n
TextsUpTo(n) ==
    IF n = 0 THEN {""}
    ELSE LET shorter == TextsUpTo(n - 1)
         IN  shorter \cup {t \o c : t \in {u \in shorter : Len(u) = n - 1}, c \in TextAlphabet}

\* the texts smart_to_float is applied to: every short text, and quantities
\* as the workbooks write them
SmartTexts ==
    TextsUpTo(MaxText) \cup
    {"1.234,56", "1234,56", "abc", " 12 ", "nan", "None", "NaN", "1.234.567,89",
     "1,234.56", "-3,5", "1.234", "+7", " 1.000,5 "}

InitFn ==
    /\ cfg = Config(TRUE, "sheets", TRUE, FALSE, TRUE)
    /\ today = Ts(2025, 6, 10, 9)
    /\ clock = RunStart
    /\ files = <<>>
    /\ idx = 1
    /\ frames = <<>>
    /\ histFile = [exists |-> FALSE, table |-> EmptyTable]
    /\ hist = EmptyTable
    /\ df_all = EmptyTable
    /\ pc = "idle"
    /\ sheet = OldSheet
    /\ resumo = Null
    /\ fl_pc = "idle"
    /\ fl_df = <<>>
    /\ fl_out = <<>>
    /\ calls = <<>>
    /\ CoreIdle
    /\ fn_pc = "smart_to_float"
    /\ fn_arg \in SmartTexts
    /\ fn_out = <<>>

\* df[c] = smart_to_float(df[c]), for one cell of the column
CallSmartToFloat ==
    /\ fn_pc = "smart_to_float"
    /\ fn_out' = smart_to_float(Text(fn_arg))
    /\ fn_pc' = "returned"
    /\ UNCHANGED <<fn_arg, pipeVars, filterVars, calls, coreVars>>

NextFn == CallSmartToFloat

SpecFn == InitFn /\ [][NextFn]_vars

(***************************************************************************)
(* src/core: ingestion.load_all_files_as_dataframes, consolidate_dataframes,*)
(* transform.transform_inventory, output.write_csv_local and                *)
(* update_google_sheet, sequenced by pipeline.run_pipeline.  A table is     *)
(* [hdr, rows], the rows aligned with hdr.                                  *)
(***************************************************************************)
EmptyFrame == [hdr |-> <<>>, rows |-> <<>>]
\* df.empty
IsEmptyFrame(df) == Len(df.hdr) = 0 \/ Len(df.rows) = 0

\* detecta_tipo_arquivo(file_name, mime_type)
detecta_tipo_arquivo(name, mime) ==
    LET n == LowerStr(name)
    IN  IF LowerStr(mime) = "application/vnd.google-apps.spreadsheet" THEN "gsheet"
        ELSE IF Len(n) >= 5 /\ SubSeq(n, Len(n) - 4, Len(n)) = ".xlsx" THEN "xlsx"
        ELSE "unknown"

\* read_gsheet raises at its first failure; read_excel_from_drive tries
\* MaxAttempts times.  f.fails is the number of attempts on the file that
\* fail before one succeeds.
ReadRaises(f) ==
    IF detecta_tipo_arquivo(f.name, f.mime) = "gsheet" THEN f.fails > 0
    ELSE f.fails >= MaxAttempts

\* the file is skipped by the loop: no id, unknown type or empty table
ReadSkips(f) ==
    \/ ~f.id
    \/ detecta_tipo_arquivo(f.name, f.mime) = "unknown"
    \/ IsEmptyFrame(f.raw)

\* pd.concat(dataframes, ignore_index=True): the union of the columns in
\* order of first appearance, the cells a table lacks are NaN
RECURSIVE UnionHdr(_)
UnionHdr(dfs) ==
    IF Len(dfs) = 0 THEN <<>>
    ELSE LET h == UnionHdr(SubSeq(dfs, 1, Len(dfs) - 1))
             last == dfs[Len(dfs)].hdr
         IN  h \o SelectIdx(last, [i \in 1..Len(last) |-> \A k \in 1..Len(h) : h[k] # last[i]])
RECURSIVE ConcatRows(_, _)
ConcatRows(dfs, h) ==
    IF Len(dfs) = 0 THEN <<>>
    ELSE LET df == dfs[Len(dfs)]
         IN  ConcatRows(SubSeq(dfs, 1, Len(dfs) - 1), h) \o
             [r \in 1..Len(df.rows) |->
                [k \in 1..Len(h) |->
                    IF HasCol(df.hdr, h[k]) THEN CellOf(df.hdr, df.rows[r], h[k]) ELSE Empty]]
consolidate_dataframes(dfs) ==
    IF Len(dfs) = 0 THEN EmptyFrame
    ELSE [hdr |-> UnionHdr(dfs), rows |-> ConcatRows(dfs, UnionHdr(dfs))]

\* pd.to_datetime(text, errors="coerce", dayfirst=True) for texts written
\* DD/MM/YYYY; any other text, and an empty cell, is NaT
ParseDayFirst(c) ==
    IF /\ c.t = "text" /\ Len(c.s) = 10
       /\ CharAt(c.s, 3) = "/" /\ CharAt(c.s, 6) = "/"
       /\ AllDigits(SubSeq(c.s, 1, 2) \o SubSeq(c.s, 4, 5) \o SubSeq(c.s, 7, 10))
    THEN LET d == DigitsValue(SubSeq(c.s, 1, 2), 0)
             m == DigitsValue(SubSeq(c.s, 4, 5), 0)
             y == DigitsValue(SubSeq(c.s, 7, 10), 0)
         IN  IF ValidDate(y, m, d) THEN Some(Ts(y, m, d, 0)) ELSE Null
    ELSE Null

\* the columns coerce_numeric_ptbr is applied to
NumericCols == {"qtd_wms", "qtd_fisico", "qtd_dif", "qtd_erp", "valor_dif"}

\* a plausible slip: columns.duplicated(keep="last")
transform_inventory_keep_last(raw) ==
    LET named == [i \in 1..Len(raw.hdr) |->
                    ~(Len(raw.hdr[i]) >= 7 /\ LowerStr(SubSeq(raw.hdr[i], 1, 7)) = "unnamed")]
        slugs == normalize_cols(SelectIdx(raw.hdr, named))
        first == [i \in 1..Len(slugs) |-> \A j \in (i + 1)..Len(slugs) : slugs[j] # slugs[i]]
        names == SelectIdx(slugs, first)
        row1(r) == SelectIdx(SelectIdx(r, named), first)
        dated == [i \in 1..Len(raw.rows) |->
                    ParseDayFirst(CellOf(names, row1(raw.rows[i]), "data_contagem")) # Null]
        rows2 == SelectIdx(raw.rows, dated)
        dates == [i \in 1..Len(rows2) |->
                    ParseDayFirst(CellOf(names, row1(rows2[i]), "data_contagem"))[1]]
        kept  == Range(filter_last_months(dates, DefaultMonths))
        rows3 == SelectIdx(rows2, [i \in 1..Len(rows2) |-> dates[i] \in kept])
        value(r, k) == IF names[k] = "data_contagem" THEN ParseDayFirst(r[k])[1]
                       ELSE IF names[k] \in NumericCols THEN smart_to_float(r[k])
                       ELSE r[k]
    IN  IF ~HasCol(names, "data_contagem") THEN [raised |-> TRUE, df |-> EmptyFrame]
        ELSE [raised |-> FALSE,
              df |-> [hdr  |-> names \o <<"data_contagem_raw">>,
                      rows |-> [i \in 1..Len(rows3) |->
                                  [k \in 1..Len(names) |-> value(row1(rows3[i]), k)]
                                      \o <<CellOf(names, row1(rows3[i]), "data_contagem")>>]]]

\* transform_inventory(df_raw): [raised, df].  Unnamed columns dropped,
\* names slugified and renamed, later columns of a repeated name dropped,
\* data_contagem_raw added, rows without a date dropped, 12-month window on
\* the data's own maximum, numeric columns coerced.
transform_inventory(raw) ==
    LET named == [i \in 1..Len(raw.hdr) |->
                    ~(Len(raw.hdr[i]) >= 7 /\ LowerStr(SubSeq(raw.hdr[i], 1, 7)) = "unnamed")]
        slugs == normalize_cols(SelectIdx(raw.hdr, named))
        first == [i \in 1..Len(slugs) |-> \A j \in 1..(i - 1) : slugs[j] # slugs[i]]
        names == SelectIdx(slugs, first)
        row1(r) == SelectIdx(SelectIdx(r, named), first)
        dated == [i \in 1..Len(raw.rows) |->
                    ParseDayFirst(CellOf(names, row1(raw.rows[i]), "data_contagem")) # Null]
        rows2 == SelectIdx(raw.rows, dated)
        dates == [i \in 1..Len(rows2) |->
                    ParseDayFirst(CellOf(names, row1(rows2[i]), "data_contagem"))[1]]
        kept  == Range(filter_last_months(dates, DefaultMonths))
        rows3 == SelectIdx(rows2, [i \in 1..Len(rows2) |-> dates[i] \in kept])
        value(r, k) == IF names[k] = "data_contagem" THEN ParseDayFirst(r[k])[1]
                       ELSE IF names[k] \in NumericCols THEN smart_to_float(r[k])
                       ELSE r[k]
    IN  IF ~HasCol(names, "data_contagem") THEN [raised |-> TRUE, df |-> EmptyFrame]
        ELSE [raised |-> FALSE,
              df |-> [hdr  |-> names \o <<"data_contagem_raw">>,
                      rows |-> [i \in 1..Len(rows3) |->
                                  [k \in 1..Len(names) |-> value(row1(rows3[i]), k)]
                                      \o <<CellOf(names, row1(rows3[i]), "data_contagem")>>]]]

\* _df_to_values(df) with the column _last_pipeline_update that
\* update_google_sheet adds: the header, then one list per row; a date is
\* written as a text, a missing value as None
df_to_values(df, now) ==
    <<df.hdr \o <<"_last_pipeline_update">>>> \o
    [i \in 1..Len(df.rows) |->
        [k \in 1..Len(df.hdr) |->
            IF df.hdr[k] = "data_contagem" THEN TsStr(df.rows[i][k])
            ELSE IF df.hdr[k] \in NumericCols THEN df.rows[i][k]
            ELSE IF df.rows[i][k].t = "nan" THEN Null
            ELSE df.rows[i][k]]
        \o <<TsStr(now)>>]

CoreFile(name, id, mime, fails, hdr, rows) ==
    [name |-> name, id |-> id, mime |-> mime, fails |-> fails,
     raw |-> [hdr |-> hdr, rows |-> rows]]

\* the files a listing of the core pipeline is drawn from
CoreFileSet ==
    { CoreFile("Inventario junho", TRUE, "application/vnd.google-apps.spreadsheet", 0,
               <<"Item", "Data Contagem", "Qtd WMS", "Qtd ERP">>,
               << <<Text("A"), Text("05/06/2025"), Text("1.234,56"), Num(10)>>,
                  <<Text("B"), Text("01/05/2024"), Num(3), Num(4)>>,
                  <<Text("C"), Text("sem data"), Num(1), Num(1)>> >>),
      CoreFile("contagem.XLSX", TRUE, "application/octet-stream", 2,
               <<"Item", "Descri{}o", "Data Contagem", "Qtd. WMS">>,
               << <<Text("A"), Text("piso"), Text("10/01/2025"), Text("7,5")>> >>),
      CoreFile("falha.xlsx", TRUE, "application/octet-stream", MaxAttempts,
               <<"Item", "Descri{}o", "Data Contagem">>,
               << <<Text("A"), Text("piso"), Text("10/01/2025")>> >>),
      CoreFile("Inventario bloqueado", TRUE, "application/vnd.google-apps.spreadsheet", 1,
               <<"Item", "Data Contagem">>, << <<Text("A"), Text("10/01/2025")>> >>),
      CoreFile("notas.pdf", TRUE, "application/pdf", 0,
               <<"Item", "Data Contagem">>, << <<Text("A"), Text("10/01/2025")>> >>),
      CoreFile("vazio.xlsx", TRUE, "application/octet-stream", 0,
               <<"Item", "Descri{}o">>, <<>>),
      CoreFile("Planilha vazia", TRUE, "application/vnd.google-apps.spreadsheet", 0,
               <<>>, <<>>),
      CoreFile("sem id.xlsx", FALSE, "application/octet-stream", 0,
               <<"Item", "Descri{}o", "Data Contagem">>,
               << <<Text("A"), Text("piso"), Text("10/01/2025")>> >>),
      CoreFile("Saldos", TRUE, "application/vnd.google-apps.spreadsheet", 0,
               <<"Item", "Qtd WMS">>, << <<Text("A"), Num(2)>> >>) }

RECURSIVE CoreListings(_)
\* the listings of at most n distinct files
CoreListings(n) ==
    IF n = 0 THEN {<<>>}
    ELSE LET shorter == CoreListings(n - 1)
         IN  shorter \cup
             {Append(l, f) : l \in {k \in shorter : Len(k) = n - 1}, f \in CoreFileSet}

InitCore ==
    /\ cfg = Config(TRUE, "sheets", TRUE, FALSE, TRUE)
    /\ today = Ts(2025, 6, 10, 9)
    /\ clock = RunStart
    /\ files = <<>>
    /\ idx = 1
    /\ frames = <<>>
    /\ histFile = [exists |-> FALSE, table |-> EmptyTable]
    /\ hist = EmptyTable
    /\ df_all = EmptyTable
    /\ pc = "idle"
    /\ sheet = OldSheet
    /\ resumo = Null
    /\ fl_pc = "idle"
    /\ fl_df = <<>>
    /\ fl_out = <<>>
    /\ calls = <<>>
    /\ c_files \in {l \in CoreListings(MaxFiles) : Cardinality(Range(l)) = Len(l)}
    /\ c_idx = 1
    /\ c_dfs = <<>>
    /\ c_df = EmptyFrame
    /\ c_pc = "load"
    /\ FnIdle

\* one iteration of "for f in files" in load_all_files_as_dataframes: the
\* file is skipped, its table is appended, or the read raises and the
\* exception leaves load_all_files_as_dataframes and run_pipeline
CoreLoadFile ==
    /\ c_pc = "load"
    /\ c_idx <= Len(c_files)
    /\ LET f == c_files[c_idx]
           noRead == ~f.id \/ detecta_tipo_arquivo(f.name, f.mime) = "unknown"
       IN  /\ c_dfs' = IF ReadSkips(f) \/ (~noRead /\ ReadRaises(f)) THEN c_dfs
                       ELSE Append(c_dfs, f.raw)
           /\ c_pc' = IF ~noRead /\ ReadRaises(f) THEN "raised in load" ELSE c_pc
    /\ c_idx' = c_idx + 1
    /\ UNCHANGED <<c_files, c_df, pipeVars, filterVars, calls, fnVars>>

\* return dataframes; df_raw = consolidate_dataframes(dfs)
CoreConsolidate ==
    /\ c_pc = "load"
    /\ c_idx > Len(c_files)
    /\ c_df' = consolidate_dataframes(c_dfs)
    /\ c_pc' = "transform"
    /\ UNCHANGED <<c_files, c_idx, c_dfs, pipeVars, filterVars, calls, fnVars>>

\* df_final, report = transform_inventory(df_raw)
CoreTransform ==
    /\ c_pc = "transform"
    /\ c_df' = transform_inventory(c_df).df
    /\ c_pc' = IF transform_inventory(c_df).raised THEN "raised in transform" ELSE "csv"
    /\ UNCHANGED <<c_files, c_idx, c_dfs, pipeVars, filterVars, calls, fnVars>>

\* csv_path = write_csv_local(df_final, BASE_DIR); upload_csv_to_drive(csv_path)
CoreWriteCsv ==
    /\ c_pc = "csv"
    /\ c_pc' = IF IsEmptyFrame(c_df) THEN "raised in csv" ELSE "sheet"
    /\ UNCHANGED <<c_files, c_idx, c_dfs, c_df, pipeVars, filterVars, calls, fnVars>>

\* update_google_sheet(df_final): the clear and the update, either of which
\* may fail with an HttpError that is raised again as a RuntimeError
CoreUpdateSheet ==
    /\ c_pc = "sheet"
    /\ \E api \in {"ok", "clear fails", "update fails"} :
          /\ sheet' = IF api = "ok" THEN Publish(sheet, df_to_values(c_df, today)).rows
                      ELSE IF api = "clear fails" THEN sheet
                      ELSE SheetClear(sheet)
          /\ calls' = calls \o (IF api = "ok" THEN Publish(sheet, df_to_values(c_df, today)).calls
                                ELSE IF api = "clear fails" THEN <<"clear">>
                                ELSE <<"clear", "update">>)
          /\ c_pc' = IF api = "ok" THEN "done" ELSE "raised in sheet"
    /\ UNCHANGED <<cfg, today, clock, files, idx, frames, histFile, hist, df_all, pc,
                   resumo, c_files, c_idx, c_dfs, c_df, filterVars, fnVars>>

NextCore ==
    \/ CoreLoadFile
    \/ CoreConsolidate
    \/ CoreTransform
    \/ CoreWriteCsv
    \/ CoreUpdateSheet

SpecCore == InitCore /\ [][NextCore]_vars

\* a run of invent2.run_pipeline or a run of the core pipeline
InitAll == Init \/ InitCore
NextAll == Next \/ NextCore
SpecAll == InitAll /\ [][NextAll]_vars

(***************************************************************************)
(* Properties.                                                             *)
(***************************************************************************)
\* the files of the listing whose iteration is over and did not fail
DoneOk == {j \in 1..(idx - 1) : j <= Len(files) /\ ~FileFails(files[j])}
\* the position in frames of the frame of file j
FrameIndex(j) == Cardinality({i \in 1..j : ~FileFails(files[i])})
\* the normalized column names of every file, and of file j
ColsByFile == [f \in FileSet |-> normalize_cols(f.raw.hdr)]
ColsOf(j) == ColsByFile[files[j]]
\* the frame of every file that does not fail, by wall-clock date and by
\* the clock at its iteration
FrameByFile ==
    [f \in FileSet \ FailingFiles, t \in {Normalize(u) : u \in Todays},
     n \in RunStart..(RunStart + MaxFiles) |-> FileFrame(f, t, n)]
\* the rows that enter the deduplication: the loaded history, then the frames
MergeInput == Concat(hist, frames)
\* the stages of run_pipeline after drop_duplicates
AfterDedup == {"window", "metrics", "write", "return", "done"}
\* a row of the combined table that comes from the history: it was ingested
\* by an earlier run
FromHistory(r) == r.ingestion_ts < RunStart

\* C1: in every table returned by transform, every row has
\* qtd_dif = qtd_wms - qtd_erp, whatever the source's qtd_dif column held.
C1_QtdDifRecomputed ==
    \A k \in 1..Len(frames) : \A i \in 1..Len(frames[k].rows) :
        frames[k].rows[i].qtd_dif = frames[k].rows[i].qtd_wms - frames[k].rows[i].qtd_erp

\* C1 witness: a transformed file whose source qtd_dif is a number different
\* from the recomputed difference of the same row.
C1_Witness ==
    \E j \in DoneOk : \E i \in 1..Len(files[j].raw.rows) :
        LET src == SourceQtdDif(ColsOf(j), files[j].raw.rows[i])
            row == frames[FrameIndex(j)].rows[i]
        IN  /\ src # Null
            /\ src[1] # row.qtd_wms - row.qtd_erp
            /\ row.qtd_dif # src[1]

\* C2: after drop_duplicates, and so in the final table, no two rows share
\* the dedup key (dt_inventario, loja, item_id), with id when the combined
\* table has an id column.
C2_DedupUnique ==
    pc \in AfterDedup =>
        \A i, j \in 1..Len(df_all.rows) :
            i # j => DedupKey(df_all.rows[i], df_all.hasId) # DedupKey(df_all.rows[j], df_all.hasId)

\* C2 witness: a finished run whose merge input held two rows with one key,
\* one of which is in the final table.
C2_Witness ==
    /\ pc = "done"
    /\ frames # <<>>
    /\ \E i, j \in 1..Len(MergeInput.rows) :
          /\ i # j
          /\ DedupKey(MergeInput.rows[i], MergeInput.hasId) = DedupKey(MergeInput.rows[j], MergeInput.hasId)
          /\ \E k \in 1..Len(df_all.rows) :
                DedupKey(df_all.rows[k], df_all.hasId) = DedupKey(MergeInput.rows[i], MergeInput.hasId)

\* C3: of two input rows of the merge with the same dedup key and different
\* ingestion_ts, the one with the smaller ingestion_ts does not survive
\* drop_duplicates, and the survivor of that key is not older than the other.
C3_LatestWins ==
    pc = "window" =>
        \A i, j \in 1..Len(MergeInput.rows) :
            LET r1 == MergeInput.rows[i]
                r2 == MergeInput.rows[j]
            IN  (/\ DedupKey(r1, MergeInput.hasId) = DedupKey(r2, MergeInput.hasId)
                 /\ r1.ingestion_ts < r2.ingestion_ts)
                => /\ r1 \notin Range(df_all.rows)
                   /\ \E k \in 1..Len(df_all.rows) :
                         /\ DedupKey(df_all.rows[k], df_all.hasId) = DedupKey(r2, MergeInput.hasId)
                         /\ df_all.rows[k].ingestion_ts >= r2.ingestion_ts

\* C3 witness: drop_duplicates has run on an input in which a history row and
\* a row of the new batch share the dedup key.
C3_Witness ==
    /\ pc = "window"
    /\ \E i, j \in 1..Len(MergeInput.rows) :
          /\ FromHistory(MergeInput.rows[i])
          /\ ~FromHistory(MergeInput.rows[j])
          /\ DedupKey(MergeInput.rows[i], MergeInput.hasId) = DedupKey(MergeInput.rows[j], MergeInput.hasId)

\* the history the run loaded; before the load, what the load will return
LoadedHistoryAtStart == IF frames # <<>> /\ pc # "loop" THEN hist ELSE LoadedHistory

\* the dates of the rows the new batch contributes to the merge
NewBatchDates == {r.dt_inventario : r \in {x \in Range(MergeInput.rows) : ~FromHistory(x)}}

\* C4: every history row whose dt_inventario is a date of the new batch is
\* discarded before the concatenation, so no row that comes from the history
\* and carries a date of the new batch is in the combined table after the
\* merge, whatever its (loja, item_id).
C4_HistoryDateDiscarded ==
    pc \in AfterDedup =>
        \A k \in 1..Len(df_all.rows) :
            FromHistory(df_all.rows[k]) => df_all.rows[k].dt_inventario \notin NewBatchDates

\* the largest dt_inventario of the post-dedup set; drop_duplicates keeps a
\* row of every key, so the dates are those of the merge input
MaxMergedDate == MaxTs({r.dt_inventario : r \in Range(MergeInput.rows)})

\* C5: every row of the final table has dt_inventario >= M - 12 months and
\* <= M, M being the largest dt_inventario of the post-dedup set, also when
\* source dates are later than the run's wall-clock date.
C5_WindowFromDataMax ==
    (pc = "done" /\ frames # <<>>) =>
        \A k \in 1..Len(df_all.rows) :
            /\ TsLE(SubMonths(Normalize(MaxMergedDate), WindowMonths), df_all.rows[k].dt_inventario)
            /\ TsLE(df_all.rows[k].dt_inventario, MaxMergedDate)

\* the frames a run started on the date hoje builds from the files fs, file
\* j on, the clock showing now
RECURSIVE FramesFrom(_, _, _, _)
FramesFrom(fs, j, hoje, now) ==
    IF j > Len(fs) THEN <<>>
    ELSE (IF FileFails(fs[j]) THEN <<>> ELSE <<FileFrame(fs[j], hoje, now)>>)
         \o FramesFrom(fs, j + 1, hoje, now + 1)

\* the dedup keys of the final table of a run on the wall-clock date t over
\* the files fs and the loaded history h
FinalKeys(fs, h, t) ==
    LET fr == FramesFrom(fs, 1, Normalize(t), RunStart)
        c  == Concat(h, fr)
        d  == DropDuplicates(StableSort(c.rows, 1..Len(c.rows)), c.hasId)
    IN  IF fr = <<>> THEN {}
        ELSE {DedupKey(r, c.hasId) : r \in Range(WindowFilter(d, t))}

\* the name carries a DDMMYY run that is a valid date: the date of the file
\* does not come from the wall clock
NameHasDate(name) ==
    LET i == FindSixDigits(name)
    IN  i # 0 /\ ValidDate(Century + TwoDigits(name, i + 4), TwoDigits(name, i + 2),
                           TwoDigits(name, i))

\* C6: two runs over the same source files and the same history on different
\* wall-clock dates retain the same set of dedup keys (stated for files whose
\* date comes from their name, so that only the cutoff can tell the runs apart).
C6_RunDateIndependent ==
    (pc = "done" /\ \A j \in 1..Len(files) : NameHasDate(files[j].name)) =>
        \A t \in Todays :
            FinalKeys(files, LoadedHistoryAtStart, t)
                = {DedupKey(df_all.rows[k], df_all.hasId) : k \in 1..Len(df_all.rows)}

\* the stages of run_pipeline after the metrics
AfterMetrics == {"write", "return", "done"}

\* the fraction a equals num / den (den > 0)
FracEq(a, num, den) == a.n * den = num * a.d

\* C8: in the table with metrics, a row with qtd_wms # 0 has an acuracia in
\* [0,1] equal to 1 - |qtd_dif| / qtd_wms clamped to [0,1] (1 when qtd_wms is
\* negative), and a row with qtd_wms = 0 has a null acuracia.
C8_AccuracyBound ==
    (pc \in AfterMetrics /\ frames # <<>>) =>
        \A k \in 1..Len(df_all.rows) :
            LET r == df_all.rows[k]
                a == r.acuracia
            IN  /\ r.qtd_wms = 0 => a = Null
                /\ r.qtd_wms # 0 =>
                      /\ a # Null
                      /\ a[1].d > 0 /\ 0 <= a[1].n /\ a[1].n <= a[1].d
                      /\ r.qtd_wms < 0 => FracEq(a[1], 1, 1)
                      /\ (r.qtd_wms > 0 /\ Abs(r.qtd_dif) >= r.qtd_wms) => FracEq(a[1], 0, 1)
                      /\ (r.qtd_wms > 0 /\ Abs(r.qtd_dif) < r.qtd_wms) =>
                            FracEq(a[1], r.qtd_wms - Abs(r.qtd_dif), r.qtd_wms)

\* C8 witness: a final table with a row of zero qtd_wms and a non-zero
\* difference, a row of negative qtd_wms and a row whose accuracy lies
\* strictly between 0 and 1.
C8_Witness ==
    /\ pc = "done"
    /\ \E k \in 1..Len(df_all.rows) : df_all.rows[k].qtd_wms = 0 /\ df_all.rows[k].qtd_dif # 0
    /\ \E k \in 1..Len(df_all.rows) : df_all.rows[k].qtd_wms < 0
    /\ \E k \in 1..Len(df_all.rows) :
          /\ df_all.rows[k].qtd_wms > 0
          /\ 0 < Abs(df_all.rows[k].qtd_dif) /\ Abs(df_all.rows[k].qtd_dif) < df_all.rows[k].qtd_wms

\* the inputs of the end-to-end scenario: the two files in listing order and
\* a history holding an earlier January row of item A and a row dated more
\* than 12 months before June 2025
ScenarioInputs ==
    /\ Len(files) = 2
    /\ files[1].name = "inv_2025-01-05.xlsx"
    /\ files[2].name = "inv_2025-06-05.xlsx"
    /\ cfg = Config(TRUE, "sheets", TRUE, FALSE, TRUE)
    /\ hist.rows = SubSeq(HistRows, 1, 2)

RowsDated(y, m, d) ==
    {k \in 1..Len(df_all.rows) : df_all.rows[k].dt_inventario = Ts(y, m, d, 0)}

\* C9: in the end-to-end scenario the final table holds exactly one January
\* row of item A, the new one, with difference -2 and accuracy 0.8, exactly
\* one June row with difference 0 and accuracy 1.0, and not the history row
\* that is out of the window.
C9_EndToEnd ==
    (pc = "done" /\ ScenarioInputs) =>
        /\ \E k \in 1..Len(df_all.rows) :
              /\ RowsDated(2025, 1, 5) = {k}
              /\ df_all.rows[k].item_id = "A"
              /\ ~FromHistory(df_all.rows[k])
              /\ df_all.rows[k].qtd_dif = -2
              /\ df_all.rows[k].acuracia # Null
              /\ FracEq(df_all.rows[k].acuracia[1], 8, 10)
        /\ \E k \in 1..Len(df_all.rows) :
              /\ RowsDated(2025, 6, 5) = {k}
              /\ df_all.rows[k].qtd_dif = 0
              /\ df_all.rows[k].acuracia # Null
              /\ FracEq(df_all.rows[k].acuracia[1], 1, 1)
        /\ RowsDated(2024, 5, 1) = {}

\* C10: a file that fails does not make the run raise, every file of the
\* listing is visited in order, and the frame of every file that does not
\* fail is, in listing order, part of the batch that is merged.
C10_PerFileIsolation ==
    /\ (cfg.PASTA_ID /\ pc \notin {"start", "loop"}) => idx = Len(files) + 1
    /\ pc = "loop" => idx <= Len(files) + 1
    /\ pc \notin {"start", "idle"} =>
          /\ Len(frames) = Cardinality(DoneOk)
          /\ \A j \in DoneOk :
                frames[FrameIndex(j)] = FrameByFile[files[j], Normalize(today), RunStart + j - 1]
    /\ pc = "dedup" =>
          \A j \in DoneOk : \A i \in 1..Len(frames[FrameIndex(j)].rows) :
              AlignRow(frames[FrameIndex(j)].rows[i]) \in Range(df_all.rows)

\* C10 witness: the merge input is built from a listing whose first file
\* failed and whose second file did not.
C10_Witness ==
    /\ pc = "dedup"
    /\ Len(files) = 2
    /\ FileFails(files[1])
    /\ ~FileFails(files[2])
    /\ Len(frames) = 1
    /\ Len(df_all.rows) >= Len(frames[1].rows)
    /\ Len(frames[1].rows) > 0

\* the day before the day of t, at midnight
PrevDay(t) ==
    IF t.d > 1 THEN [y |-> t.y, m |-> t.m, d |-> t.d - 1, h |-> 0]
    ELSE IF t.m > 1 THEN [y |-> t.y, m |-> t.m - 1, d |-> DaysInMonth(t.y, t.m - 1), h |-> 0]
    ELSE [y |-> t.y - 1, m |-> 12, d |-> 31, h |-> 0]

\* midnight of the day twelve calendar months before the day of t (the last
\* day of the month when that month is shorter)
YearBefore(t) == [y |-> t.y - 1, m |-> t.m, d |-> Min(t.d, DaysInMonth(t.y - 1, t.m)), h |-> 0]

\* C7: filter_last_months(df, date_col, 12) on a non-empty table keeps
\* exactly the rows dated at or after midnight of the day twelve calendar
\* months before the maximum date: a row dated on that day is kept, a row
\* dated one day earlier is dropped, and the row of the maximum date is kept.
C7_FilterBoundary ==
    (fl_pc = "returned" /\ fl_df # <<>>) =>
        LET M == MaxTs(Range(fl_df))
            B == YearBefore(M)
        IN  /\ fl_out = SelectIdx(fl_df, [i \in 1..Len(fl_df) |-> TsLE(B, fl_df[i])])
            /\ M \in Range(fl_out)
            /\ \A i \in 1..Len(fl_df) :
                  /\ Normalize(fl_df[i]) = B => fl_df[i] \in Range(fl_out)
                  /\ Normalize(fl_df[i]) = PrevDay(B) => fl_df[i] \notin Range(fl_out)

\* C7 witness: a filtered table that held a row at midnight of the day twelve
\* months before a maximum with a time of day, and a row of the day before.
C7_Witness ==
    /\ fl_pc = "returned"
    /\ fl_df # <<>>
    /\ MaxTs(Range(fl_df)).h > 0
    /\ YearBefore(MaxTs(Range(fl_df))) \in Range(fl_df)
    /\ YearBefore(MaxTs(Range(fl_df))) \in Range(fl_out)
    /\ \E i \in 1..Len(fl_df) :
          /\ Normalize(fl_df[i]) = PrevDay(YearBefore(MaxTs(Range(fl_df))))
          /\ fl_df[i] \notin Range(fl_out)

\* C19: smart_to_float maps a text with both "." and "," by removing every
\* "." and turning "," into ".", a text with only "," by turning "," into
\* ".", and parses the result: "1.234,56" and "1234,56" give 1234.56, empty
\* or unparseable text gives null, a text without "," is parsed unchanged.
C19_SmartToFloat ==
    fn_pc = "returned" =>
        LET t == Strip(fn_arg, {" "})
        IN  /\ t \in {"1.234,56", "1234,56"} =>
                  (fn_out # Null /\ FracEq(fn_out[1], 123456, 100))
            /\ t \in {"", "abc"} => fn_out = Null
            /\ ~HasChar(t, ",") => fn_out = ParseFloat(t)
            /\ (HasChar(t, ",") /\ ~HasChar(t, ".")) =>
                  fn_out = ParseFloat(ReplaceChar(t, ",", "."))
            /\ (HasChar(t, ",") /\ HasChar(t, ".")) =>
                  fn_out = ParseFloat(ReplaceChar(ReplaceChar(t, ".", ""), ",", "."))
            /\ fn_out # Null => fn_out[1].d > 0

\* C19 witness: the call returned 1234.56 for the text "1.234,56".
C19_Witness ==
    /\ fn_pc = "returned"
    /\ fn_arg = "1.234,56"
    /\ fn_out = Some([n |-> 123456, d |-> 100])

\* C11: load_all_files_as_dataframes of the core pipeline skips a file whose
\* read fails: the failure is not propagated, and the files listed after it
\* are still read.
C11_ReadFailureSkipped ==
    /\ c_pc # "raised in load"
    /\ (c_pc = "transform" =>
          \A i \in 1..Len(c_files) :
              (~ReadSkips(c_files[i]) /\ ~ReadRaises(c_files[i])) =>
                  \E j \in 1..Len(c_dfs) : c_dfs[j] = c_files[i].raw)

\* the files of the listing that were transformed
Transformed == {i \in 1..Len(files) : ~FileFails(files[i])}

\* C12: the summary returned by run_pipeline has arquivos_processados = 0
\* exactly when no file of the listing was transformed; that summary has
\* linhas_finais = 0 and null data_min / data_max, and the run has loaded no
\* history, merged nothing and issued no call to the sheet; a run with a
\* transformed file reports arquivos_processados >= 1, whatever the number of
\* final rows.  While no file has been transformed, the sheet and the history
\* file never change.
C12_NoValidFilesSentinel ==
    /\ [](pc = "done" =>
            /\ resumo # Null
            /\ (resumo[1].arquivos_processados = 0) <=> (Transformed = {})
            /\ resumo[1].arquivos_processados = Cardinality(Transformed)
            /\ Transformed = {} =>
                  /\ resumo[1].linhas_finais = 0
                  /\ resumo[1].data_min = Null
                  /\ resumo[1].data_max = Null
                  /\ hist = EmptyTable
                  /\ df_all = EmptyTable
                  /\ sheet = OldSheet
                  /\ calls = <<>>
            /\ Transformed # {} => resumo[1].arquivos_processados >= 1)
    /\ [][frames' = <<>> => (sheet' = sheet /\ histFile' = histFile /\ calls' = calls)]_vars

\* a run without a transformed file has returned the sentinel summary
C12_Witness ==
    /\ pc = "done"
    /\ Len(files) > 0
    /\ Transformed = {}
    /\ resumo[1].arquivos_processados = 0
    /\ sheet = OldSheet

\* C13: a run of the core pipeline in which no file of the listing yields a
\* non-empty table ends without raising and without a clear or an update of
\* the destination sheet.
C13_CoreNoValidFiles ==
    (c_pc \notin {"idle", "load", "raised in load"} /\ c_dfs = <<>>) =>
        /\ c_pc \notin {"raised in transform", "raised in csv", "raised in sheet"}
        /\ sheet = OldSheet
        /\ calls = <<>>

\* C14: a run whose configuration lacks the input folder id, or has the
\* destination 'sheets' with neither SHEET_OUTPUT_ID nor DRIVE_FOLDER_OUTPUT,
\* aborts before any file is listed, read or transformed.
C14_ConfigAbortsBeforeWork ==
    (\/ ~cfg.PASTA_ID
     \/ (Destino = "sheets" /\ ~cfg.SHEET_OUTPUT_ID /\ ~cfg.DRIVE_FOLDER_OUTPUT)) =>
        /\ pc \in {"start", "raised"}
        /\ idx = 1
        /\ frames = <<>>

\* C15: every update of the destination sheet, by utils.write_output and by
\* update_google_sheet of the core pipeline, directly follows a clear of the
\* same run, and after a successful publication the sheet holds exactly the
\* header and the rows of the new table, nothing of its previous content.
C15_ClearBeforeWrite ==
    /\ \A i \in 1..Len(calls) :
          calls[i] = "update" => (i > 1 /\ calls[i - 1] = "clear")
    /\ (pc \in {"return", "done"} /\ frames # <<>> /\ Destino = "sheets") =>
          /\ calls = <<"clear", "update">>
          /\ Len(sheet) = Len(df_all.rows) + 1
          /\ sheet = df_to_sheet_values(df_all)
    /\ c_pc = "done" =>
          /\ calls = <<"clear", "update">>
          /\ Len(sheet) = Len(c_df.rows) + 1
          /\ sheet = df_to_values(c_df, today)

\* the core pipeline has published a table shorter than the old content
C15_Witness ==
    /\ c_pc = "done"
    /\ calls = <<"clear", "update">>
    /\ Len(c_df.rows) > 0
    /\ Len(sheet) < Len(OldSheet)

\* the order of the stages of run_pipeline: the moves of pc that the code allows
StageSteps ==
    { <<"start", "loop">>, <<"start", "raised">>, <<"loop", "loop">>,
      <<"loop", "done">>, <<"loop", "dedup">>, <<"dedup", "window">>,
      <<"window", "metrics">>, <<"metrics", "write">>, <<"write", "return">>,
      <<"write", "raised">>, <<"return", "done">> }

\* C16: the stages of run_pipeline run in one order: the listing, then one
\* attempt per listed file, then the history load and the merge (concat,
\* dedup, window) once, then the metrics, then one write, and the summary
\* last.  The merge does not start while a file is unprocessed, and nothing
\* is written before every row has its metrics.
C16_StageOrder ==
    /\ [](/\ pc = "start" => (idx = 1 /\ frames = <<>>)
          /\ pc \in {"dedup", "window", "metrics", "write", "return", "done"} =>
                 idx = Len(files) + 1
          /\ pc \in {"start", "loop"} => (hist = EmptyTable /\ df_all = EmptyTable)
          /\ pc \in {"start", "loop", "dedup", "window", "metrics", "write"} =>
                 (calls = <<>> /\ sheet = OldSheet /\ resumo = Null)
          /\ pc \in {"write", "return"} =>
                 \A i \in 1..Len(df_all.rows) :
                     df_all.rows[i] = Metrics(df_all.rows[i])
          /\ Len(calls) <= 2
          /\ resumo # Null <=> pc = "done")
    /\ [][/\ <<pc, pc'>> \in StageSteps
          /\ (pc = "loop" /\ pc' = "loop") => (idx <= Len(files) /\ idx' = idx + 1)
          /\ pc \in {"dedup", "window", "metrics", "write", "return"} =>
                 (frames' = frames /\ idx' = idx /\ hist' = hist)
          /\ pc \in {"write", "return"} => df_all' = df_all]_vars

\* a run over two files, one of which failed, has merged, written and returned
C16_Witness ==
    /\ pc = "done"
    /\ Len(files) = 2
    /\ Len(frames) = 1
    /\ calls = <<"clear", "update">>
    /\ resumo # Null
    /\ Len(df_all.rows) > 0

\* the files whose table has neither qtd_erp nor qtd_wms after the
\* normalization of the columns
NoQtdFiles ==
    {f \in FileSet :
        /\ f.readable
        /\ ~HasCol(normalize_cols(f.raw.hdr), "qtd_erp")
        /\ ~HasCol(normalize_cols(f.raw.hdr), "qtd_wms")}
\* the exception transform raises for each file
FileError == [f \in FileSet |-> TransformError(f.raw)]
\* those of them already attempted
BothQtdAbsent == {i \in 1..(idx - 1) : files[i] \in NoQtdFiles}

\* C17: for a table with neither qtd_erp nor qtd_wms after normalization,
\* transform raises the ValueError of the validation, which names both
\* missing columns and the columns found; the failure stays with that file:
\* it contributes no frame, the loop goes on and the other files are
\* transformed.
C17_SchemaErrorConfined ==
    \A i \in BothQtdAbsent :
        LET e == FileError[files[i]]
        IN  /\ FileFails(files[i])
            /\ e # Null
            /\ e[1].type = "ValueError"
            /\ e[1].missing = <<"qtd_erp", "qtd_wms">>
            /\ e[1].found = normalize_cols(files[i].raw.hdr)
            /\ idx <= Len(files) => pc = "loop"
            /\ Len(frames) = Cardinality({j \in 1..(idx - 1) : ~FileFails(files[j])})

\* the file without quantity columns came first, the file after it was
\* transformed and the run has returned
C17_Witness ==
    /\ pc = "done"
    /\ Len(files) = 2
    /\ files[1].name = "Contagem080625.xlsx"
    /\ BothQtdAbsent = {1}
    /\ FileError[files[1]] =
           Some([type |-> "ValueError", missing |-> <<"qtd_erp", "qtd_wms">>,
                 found |-> <<"item_id", "saldo">>])
    /\ Len(frames) = 1

\* the quantity q of a returned row is what the locale-aware rule makes of
\* the source cell c: its number, or 0 when the rule gives none
LocaleQuantity(c, q) ==
    IF smart_to_float(c) = Null THEN q = 0 ELSE FracEq(smart_to_float(c)[1], q, 1)

\* C18: in every table returned by transform, qtd_erp and qtd_wms are never
\* null and equal the number the locale-aware rule gives for the source cell
\* ('.' thousands and ',' decimal where both occur, ',' decimal where only
\* ',' occurs), 0 only where the cell is empty or unparseable under that
\* rule; valor_dif is null where the column is absent or the cell unparseable.
C18_LocaleAwareQuantities ==
    \A j \in DoneOk :
        \A i \in 1..Len(files[j].raw.rows) :
            LET r   == files[j].raw.rows[i]
                row == frames[FrameIndex(j)].rows[i]
            IN  /\ row.qtd_erp \in Int
                /\ row.qtd_wms \in Int
                /\ LocaleQuantity(CellOf(ColsOf(j), r, "qtd_erp"), row.qtd_erp)
                /\ LocaleQuantity(CellOf(ColsOf(j), r, "qtd_wms"), row.qtd_wms)
                /\ (~HasCol(ColsOf(j), "valor_dif")
                    \/ smart_to_float(CellOf(ColsOf(j), r, "valor_dif")) = Null)
                       => row.valor_dif = Null

\* C20: a record returned by transform carries the inconsistency flag exactly
\* when the source table had a qtd_dif column; the flag is true exactly when
\* the source's qtd_dif differs from the recomputed qtd_wms - qtd_erp; no row
\* is removed on account of the flag.
C20_InconsistencyFlag ==
    \A j \in DoneOk :
        /\ Len(frames[FrameIndex(j)].rows) = Len(files[j].raw.rows)
        /\ \A i \in 1..Len(files[j].raw.rows) :
              LET r   == files[j].raw.rows[i]
                  row == frames[FrameIndex(j)].rows[i]
              IN  IF HasCol(ColsOf(j), "qtd_dif")
                  THEN /\ "flag_inconsistencia" \in DOMAIN row
                       /\ row.flag_inconsistencia = FlagInconsistencia(ColsOf(j), r)[1]
                  ELSE "flag_inconsistencia" \notin DOMAIN row

\* C21: the table transform returns for a file has as many rows as the raw
\* table, and its i-th row comes from the i-th raw row, whatever the cells
\* hold (unparseable quantities, null item ids, repeated item ids).
C21_RowCountPreserved ==
    \A j \in DoneOk :
        /\ Len(frames[FrameIndex(j)].rows) = Len(files[j].raw.rows)
        /\ \A i \in 1..Len(frames[FrameIndex(j)].rows) :
              /\ i <= Len(files[j].raw.rows)
              /\ frames[FrameIndex(j)].rows[i].item_id =
                     CellText(CellOf(ColsOf(j), files[j].raw.rows[i], "item_id"))

\* a file with a repeated item id and a null item id has been transformed
C21_Witness ==
    \E j \in DoneOk :
        /\ files[j].name = "Contagem050625.xlsx"
        /\ Len(frames[FrameIndex(j)].rows) = 4
        /\ frames[FrameIndex(j)].rows[1].item_id = frames[FrameIndex(j)].rows[3].item_id
        /\ frames[FrameIndex(j)].rows[4].item_id = NoneStr

(***************************************************************************)
(* Functions applied to one argument: the argument is fn_arg, the result   *)
(* fn_out, and fn_pc names the function until it has returned.             *)
(***************************************************************************)
\* the programs are not running
PipeIdle ==
    /\ cfg = Config(TRUE, "sheets", TRUE, FALSE, TRUE)
    /\ today = Ts(2025, 6, 10, 9)
    /\ clock = RunStart
    /\ files = <<>>
    /\ idx = 1
    /\ frames = <<>>
    /\ histFile = [exists |-> FALSE, table |-> EmptyTable]
    /\ hist = EmptyTable
    /\ df_all = EmptyTable
    /\ pc = "idle"
    /\ sheet = OldSheet
    /\ resumo = Null
    /\ fl_pc = "idle"
    /\ fl_df = <<>>
    /\ fl_out = <<>>
    /\ calls = <<>>
    /\ CoreIdle

(***************************************************************************)
(* src/core/output._df_to_values.  A value of the table is given by its    *)
(* Python type after df.values.tolist(): None, NaN, +inf, -inf, bool, int,  *)
(* finite float, Timestamp, NaT, str.  A rendered value is null, a number,  *)
(* a bool or a text.                                                       *)
(***************************************************************************)
PyNone      == [t |-> "none"]
PyNaN       == [t |-> "nan"]
PyInf       == [t |-> "inf"]
PyNegInf    == [t |-> "-inf"]
PyNaT       == [t |-> "nat"]
PyBool(b)   == [t |-> "bool", b |-> b]
PyInt(n)    == [t |-> "int", n |-> n]
PyFloat(n, d) == [t |-> "float", n |-> n, d |-> d]
PyTs(ts)    == [t |-> "ts", ts |-> ts]
PyStr(s)    == [t |-> "str", s |-> s]

JsonNull      == [k |-> "null"]
JsonNum(n, d) == [k |-> "num", n |-> n, d |-> d]
JsonBool(b)   == [k |-> "bool", b |-> b]
JsonStr(s)    == [k |-> "str", s |-> s]

\* what a NaT of a datetime column becomes.  Step 1 writes the strftime texts
\* and None into the column and step 2 is df.where(pd.notna(df), None): where
\* the column is still datetime64 afterwards the value reaches the loop as
\* pd.NaT, which is no None, bool, int, float or Timestamp, and is rendered
\* by str(val); where the column has become an object column it is None.
\* Which of the two happens depends on the pandas release.
NaTRenderings == {JsonStr("NaT"), JsonNull}

\* the body of "for val in row": one value of clean_row
CleanValue(val, nat) ==
    IF val.t = "none" THEN JsonNull
    ELSE IF val.t = "bool" THEN JsonBool(val.b)
    ELSE IF val.t = "int" THEN JsonNum(val.n, 1)
    ELSE IF val.t \in {"nan", "inf", "-inf"} THEN JsonNull
    ELSE IF val.t = "float" THEN JsonNum(val.n, val.d)
    ELSE IF val.t = "ts" THEN JsonStr(TsStr(val.ts))
    ELSE IF val.t = "nat" THEN nat
    ELSE JsonStr(val.s)

\* _df_to_values(df): the header, then one list per row
DfToValues(df, nat) ==
    <<df.hdr>> \o
    [i \in 1..Len(df.rows) |->
        [k \in 1..Len(df.rows[i]) |-> CleanValue(df.rows[i][k], nat)]]

\* the tables rendered: a float column, a datetime column, an object column
ValueHdr == <<"qtd_erp", "data_contagem", "motivo">>
FloatValues  == {PyFloat(0, 1), PyFloat(25, 10), PyNaN, PyInf, PyNegInf}
DateValues   == {PyTs(Ts(2025, 6, 5, 0)), PyNaT}
ObjectValues == {PyStr("nan"), PyNone, PyInt(0), PyBool(FALSE)}
ValueRows == {<<f, d, o>> : f \in FloatValues, d \in DateValues, o \in ObjectValues}
RECURSIVE ValueTables(_)
ValueTables(n) ==
    IF n = 0 THEN {<<>>}
    ELSE LET shorter == ValueTables(n - 1)
         IN  shorter \cup {Append(t, r) : t \in {u \in shorter : Len(u) = n - 1},
                                          r \in ValueRows}

InitValues ==
    /\ PipeIdle
    /\ fn_pc = "_df_to_values"
    /\ fn_arg \in {[hdr |-> ValueHdr, rows |-> t] : t \in ValueTables(MaxRows)}
    /\ fn_out = <<>>

\* values = _df_to_values(df)
CallDfToValues ==
    /\ fn_pc = "_df_to_values"
    /\ \E nat \in NaTRenderings : fn_out' = DfToValues(fn_arg, nat)
    /\ fn_pc' = "returned"
    /\ UNCHANGED <<fn_arg, pipeVars, filterVars, calls, coreVars>>

NextValues == CallDfToValues

SpecValues == InitValues /\ [][NextValues]_vars

\* a missing value of the table: None, NaN, the infinities, NaT
IsMissing(val) == val.t \in {"none", "nan", "inf", "-inf", "nat"}

\* C22: _df_to_values returns the header and then one row per record; a NaN,
\* an infinity or a missing value is rendered as null, a finite number keeps
\* its value (0 stays 0) and a datetime is rendered as a date-time text.
C22_NullRendering ==
    fn_pc = "returned" =>
        /\ Len(fn_out) = Len(fn_arg.rows) + 1
        /\ fn_out[1] = fn_arg.hdr
        /\ \A i \in 1..Len(fn_arg.rows) : \A k \in 1..Len(fn_arg.rows[i]) :
              LET val == fn_arg.rows[i][k]
                  out == fn_out[i + 1][k]
              IN  /\ IsMissing(val) => out = JsonNull
                  /\ val.t = "float" => out = JsonNum(val.n, val.d)
                  /\ val.t = "int" => out = JsonNum(val.n, 1)
                  /\ val.t = "ts" => out = JsonStr(TsStr(val.ts))

(***************************************************************************)
(* Column slugification applied to one header: invent2.normalize_cols, and  *)
(* core transform._slugify followed by rename_known_columns, which are the  *)
(* same chain of strip, lower, NFKD + ascii/ignore, re.sub and strip("_"),  *)
(* with "item" renamed to "item_id".                                       *)
(***************************************************************************)
HeaderAlphabet == {"a", "I", "1", " ", "_", ".", "{", "^"}

RECURSIVE HeadersUpTo(_)
\* the headers over HeaderAlphabet of length at most n
HeadersUpTo(n) ==
    IF n = 0 THEN {""}
    ELSE LET shorter == HeadersUpTo(n - 1)
         IN  shorter \cup {t \o c : t \in {u \in shorter : Len(u) = n - 1}, c \in HeaderAlphabet}

\* every short header, and headers as the workbooks write them
Headers ==
    HeadersUpTo(MaxText) \cup
    {" Qtd. ERP ", "Descri{}o", "item", " ITEM ", "Qtd^WMS", "Qtd - WMS", "__id__", "Item.", "Valor Dif. (R$)"}

InitSlug ==
    /\ PipeIdle
    /\ fn_pc = "normalize_cols"
    /\ fn_arg \in Headers
    /\ fn_out = <<>>

\* df = normalize_cols(df), for one column
CallNormalizeCols ==
    /\ fn_pc = "normalize_cols"
    /\ fn_out' = normalize_cols(<<fn_arg>>)
    /\ fn_pc' = "returned"
    /\ UNCHANGED <<fn_arg, pipeVars, filterVars, calls, coreVars>>

NextSlug == CallNormalizeCols

SpecSlug == InitSlug /\ [][NextSlug]_vars

\* the header, character by character, as the rule of the claim reads it: a
\* letter or digit in lower case, an accented letter as its base letter, any
\* other character as a separator
RECURSIVE RuleChars(_)
RuleChars(s) ==
    IF Len(s) = 0 THEN ""
    ELSE LET c == LowerChar(CharAt(s, 1))
         IN  (IF IsSlugChar(c) THEN c
              ELSE IF c \in CharSet(Accented) THEN CharAt(BaseASCII, IndexIn(Accented, c))
              ELSE "_") \o RuleChars(SubSeq(s, 2, Len(s)))

\* a run of separators read as one "_", none at either end
RuleSlug(s) == Strip(CollapseRuns(RuleChars(s), FALSE), {"_"})

\* C23: the slug of a header consists of a-z, 0-9 and "_" only, has no "_" at
\* either end and no two adjacent "_"; it is the trimmed, lower-cased header
\* with accented letters as their base letter and each maximal run of other
\* characters as one "_"; the slug "item" becomes item_id, any other slug is
\* kept.
C23_Slug ==
    fn_pc = "returned" =>
        LET out == fn_out[1]
        IN  /\ \A i \in 1..Len(out) : IsSlugChar(CharAt(out, i)) \/ CharAt(out, i) = "_"
            /\ Len(out) > 0 => (CharAt(out, 1) # "_" /\ CharAt(out, Len(out)) # "_")
            /\ \A i \in 1..(Len(out) - 1) : ~(CharAt(out, i) = "_" /\ CharAt(out, i + 1) = "_")
            /\ out = (IF RuleSlug(fn_arg) = "item" THEN "item_id" ELSE RuleSlug(fn_arg))

\* the table handed to transform_inventory by the run, and its normalized
\* column names, repeated ones included (no source header is "Unnamed")
CoreRaw == consolidate_dataframes(c_dfs)
CoreSlugs == normalize_cols(CoreRaw.hdr)
\* the position of the first source column that normalizes to name
FirstCol(name) == CHOOSE i \in 1..Len(CoreSlugs) :
                      CoreSlugs[i] = name /\ \A j \in 1..(i - 1) : CoreSlugs[j] # name
\* the value transform_inventory makes of a source cell of the column name,
\* Null for a date that does not parse (the row is then filtered out)
CoreValue(name, cell) ==
    IF name = "data_contagem" THEN ParseDayFirst(cell)
    ELSE IF name \in NumericCols THEN Some(smart_to_float(cell))
    ELSE Some(cell)
\* the stages of the core pipeline after transform_inventory has returned
AfterCoreTransform == {"csv", "raised in csv", "sheet", "raised in sheet", "done"}

\* C24: the column names of the table transform_inventory returns are
\* pairwise distinct; of the source columns that normalize to one name the
\* first is kept, with its values, and the others are removed; every name
\* occurs, in the order of the first occurrences.
C24_FirstColumnKept ==
    c_pc \in AfterCoreTransform =>
        LET names == SubSeq(c_df.hdr, 1, Len(c_df.hdr) - 1)
        IN  /\ \A a, b \in 1..Len(names) : names[a] = names[b] => a = b
            /\ Range(names) = Range(CoreSlugs)
            /\ \A a, b \in 1..Len(names) : a < b => FirstCol(names[a]) < FirstCol(names[b])
            /\ \A r \in 1..Len(c_df.rows) :
                  \E i \in 1..Len(CoreRaw.rows) :
                      \A k \in 1..Len(names) :
                          Some(c_df.rows[r][k]) = CoreValue(names[k], CoreRaw.rows[i][FirstCol(names[k])])

\* two source columns normalize to qtd_wms, and a row of the result has its
\* quantity in the second of them only
C24_Witness ==
    /\ c_pc = "csv"
    /\ Cardinality({i \in 1..Len(CoreSlugs) : CoreSlugs[i] = "qtd_wms"}) = 2
    /\ \E r \in 1..Len(c_df.rows) :
          /\ CellOf(c_df.hdr, c_df.rows[r], "qtd_wms") = Null
          /\ \E i \in 1..Len(CoreRaw.rows) :
                \E k \in 1..Len(CoreSlugs) :
                    CoreSlugs[k] = "qtd_wms" /\ CoreRaw.rows[i][k] = Text("7,5")

(***************************************************************************)
(* invent.parse_date_store, the parser of the first version of the script: *)
(* an ISO date in the name, and the store token matched as written.        *)
(***************************************************************************)
\* re.search(r'(\d{4}-\d{2}-\d{2})', filename): start of the leftmost match,
\* 0 when there is none
IsoDateAt(s, i) ==
    /\ i + 9 <= Len(s)
    /\ \A k \in {0, 1, 2, 3, 5, 6, 8, 9} : IsDigit(CharAt(s, i + k))
    /\ CharAt(s, i + 4) = "-"
    /\ CharAt(s, i + 7) = "-"
FindIsoDate(s) ==
    IF \E i \in 1..Len(s) : IsoDateAt(s, i)
    THEN CHOOSE i \in 1..Len(s) : IsoDateAt(s, i) /\ \A j \in 1..(i - 1) : ~IsoDateAt(s, j)
    ELSE 0

\* re.search(r'loja-([A-Za-z0-9_-]+)', filename), without re.IGNORECASE
StoreAtExact(s, i) ==
    /\ i + 5 <= Len(s)
    /\ SubSeq(s, i, i + 4) = "loja-"
    /\ IsStoreChar(CharAt(s, i + 5))
FindStoreExact(s) ==
    IF \E i \in 1..Len(s) : StoreAtExact(s, i)
    THEN CHOOSE i \in 1..Len(s) :
             StoreAtExact(s, i) /\ \A j \in 1..(i - 1) : ~StoreAtExact(s, j)
    ELSE 0

\* invent.parse_date_store(filename); pd.to_datetime raises on a text that
\* is no calendar date, before the store is looked for
invent_parse_date_store(filename, hoje) ==
    LET i  == FindIsoDate(filename)
        y  == TwoDigits(filename, i) * 100 + TwoDigits(filename, i + 2)
        m  == TwoDigits(filename, i + 5)
        d  == TwoDigits(filename, i + 8)
        m2 == FindStoreExact(filename)
        loja == IF m2 = 0 THEN NoneStr ELSE UpperStr(StoreRun(filename, m2 + 5))
    IN  IF i = 0 THEN [d |-> hoje, loja |-> loja]
        ELSE IF ValidDate(y, m, d) /\ y >= 1 THEN [d |-> Ts(y, m, d, 0), loja |-> loja]
        ELSE [raised |-> "ValueError"]

(***************************************************************************)
(* parse_date_store applied to one file name.                              *)
(***************************************************************************)
NameHeads  == {"Contagem", "", "inv_2025-01-05_", "x1_"}
DayTexts   == {"00", "05", "29", "31", "32"}
MonthTexts == {"00", "01", "02", "13"}
YearTexts  == {"24", "25"}
NameTails  == {".xlsx", "_loja-rrp.xlsx", "_LOJA-Rrp_2.xlsx", "7 Loja-.x", "_loja- a", "loja_a-b"}

\* names of files of the input folder
FileNames ==
    {h \o d \o m \o y \o t :
        h \in NameHeads, d \in DayTexts, m \in MonthTexts, y \in YearTexts, t \in NameTails}
    \cup {"", "loja-", "Loja-a1", "inv_2025-01-05.xlsx", "inv_2025-02-30_loja-RRP.gsheet",
          "WF0041_inventario_2025-11-09_loja-RRP.gsheet",
          "WF0041_inventario_2025-11-09_LOJA-rrp.gsheet", "12345", "1234 56",
          "loja-loja-x", "LOJA--", "estoque.xlsx"}

InitParse ==
    /\ PipeIdle
    /\ fn_pc \in {"invent2.parse_date_store", "invent.parse_date_store"}
    /\ fn_arg \in FileNames
    /\ fn_out = <<>>

\* invent2: dt_inv, loja = parse_date_store(name)
CallParseDateStore ==
    /\ fn_pc = "invent2.parse_date_store"
    /\ fn_out' = parse_date_store(fn_arg, Normalize(today))
    /\ fn_pc' = "invent2.returned"
    /\ UNCHANGED <<fn_arg, pipeVars, filterVars, calls, coreVars>>

\* invent: dt_inv, loja = parse_date_store(f['name'])
CallInventParseDateStore ==
    /\ fn_pc = "invent.parse_date_store"
    /\ fn_out' = invent_parse_date_store(fn_arg, Normalize(today))
    /\ fn_pc' = "invent.returned"
    /\ UNCHANGED <<fn_arg, pipeVars, filterVars, calls, coreVars>>

NextParse == CallParseDateStore \/ CallInventParseDateStore

SpecParse == InitParse /\ [][NextParse]_vars

\* the positions of the name where six consecutive digits start
SixDigitRuns(s) ==
    {i \in 1..Len(s) : i + 5 <= Len(s) /\ \A k \in 0..5 : CharAt(s, i + k) \in DigitSet}

\* C25: invent2.parse_date_store always returns a valid calendar date: the
\* leftmost six consecutive digits of the name read as DD, MM, YY give the
\* date of year 2000+YY when that is a date of the calendar, and the current
\* date is returned when it is not or when the name has no six digits in a row
C25_ParseDate ==
    fn_pc = "invent2.returned" =>
        LET s    == fn_arg
            hoje == Normalize(today)
            d    == fn_out.d
        IN  /\ d.m \in 1..12
            /\ d.d \in 1..DaysInMonth(d.y, d.m)
            /\ d.h = 0
            /\ IF SixDigitRuns(s) = {} THEN d = hoje
               ELSE LET i  == CHOOSE j \in SixDigitRuns(s) : \A k \in SixDigitRuns(s) : j <= k
                        dd == TwoDigits(s, i)
                        mm == TwoDigits(s, i + 2)
                        yy == TwoDigits(s, i + 4)
                    IN  IF mm \in 1..12 /\ dd \in 1..DaysInMonth(Century + yy, mm)
                        THEN d = [y |-> Century + yy, m |-> mm, d |-> dd, h |-> 0]
                        ELSE d = hoje

\* a name whose six digits are day 32, and one with 29 February of a leap
\* year, have been parsed
C25_Witness ==
    /\ fn_pc = "invent2.returned"
    /\ \/ fn_arg = "Contagem320125.xlsx" /\ fn_out.d = Normalize(today)
       \/ fn_arg = "Contagem290224.xlsx" /\ fn_out.d = Ts(2024, 2, 29, 0)

\* the store id the name announces: the characters after the leftmost
\* "loja-", in any letter case, that is followed by a letter, a digit, "-" or
\* "_", up to the first other character, upper-cased; NoneStr without one
RECURSIVE RunFrom(_, _)
RunFrom(s, i) ==
    IF i > Len(s) THEN ""
    ELSE LET c == CharAt(s, i)
         IN  IF c \in LowerSet \cup UpperSet \cup DigitSet \cup {"-", "_"}
             THEN c \o RunFrom(s, i + 1)
             ELSE ""
TokenStarts(s) ==
    {i \in 1..Len(s) :
        /\ i + 5 <= Len(s)
        /\ SubSeq(s, i, i + 4) \in
               {l \o o \o j \o a \o "-" : l \in {"l", "L"}, o \in {"o", "O"},
                                          j \in {"j", "J"}, a \in {"a", "A"}}
        /\ RunFrom(s, i + 5) # ""}
AnnouncedStore(s) ==
    IF TokenStarts(s) = {} THEN NoneStr
    ELSE LET i == CHOOSE j \in TokenStarts(s) : \A k \in TokenStarts(s) : j <= k
         IN  UpperStr(RunFrom(s, i + 5))

\* C26: the store id that parse_date_store, of invent2 and of invent,
\* returns is the run that follows "loja-" (written in any letter case) in
\* the file name, upper-cased, and is null when the name has no such token
C26_StoreExtraction ==
    fn_pc \in {"invent2.returned", "invent.returned"} /\ "loja" \in DOMAIN fn_out =>
        fn_out.loja = AnnouncedStore(fn_arg)

\* the same statement of invent2.parse_date_store alone
C26_Invent2Store ==
    fn_pc = "invent2.returned" => fn_out.loja = AnnouncedStore(fn_arg)

(***************************************************************************)
(* src/core/ingestion.read_excel_from_drive on one file.  fn_arg gives the *)
(* outcome of each download-and-parse the Drive would answer with: "df"    *)
(* for a workbook read, or the name of the exception raised (ValueError is  *)
(* the missing header row).  fn_out is the frame of the call: attempt, the *)
(* sleeps made so far in tenths of a second, last_err, and the result.     *)
(***************************************************************************)
Outcomes == {"df", "HttpError", "ValueError"}
\* random.uniform(0, 1.5), in tenths of a second
Jitters  == {0, 7, 15}

OutcomeSeqs == [1..MaxAttempts -> Outcomes]

\* wait = min(60, 2 ** attempt) + random.uniform(0, 1.5), in tenths
WaitLinear(attempt, jitter) == Min(60 * 10, (2 * attempt) * 10) + jitter
Wait(attempt, jitter) == Min(60 * 10, (2 ^ attempt) * 10) + jitter

InitRead ==
    /\ PipeIdle
    /\ fn_pc = "try"
    /\ fn_arg \in OutcomeSeqs
    /\ fn_out = [attempt |-> 1, tried |-> 0, sleeps |-> <<>>, last_err |-> NoneStr,
                 result |-> Null]

\* the body of try: download, preview, _find_header_row, read; return df
TryRead ==
    /\ fn_pc = "try"
    /\ LET a == fn_out.attempt
       IN  IF fn_arg[a] = "df"
           THEN /\ fn_out' = [fn_out EXCEPT !.tried = a, !.result = [df |-> a]]
                /\ fn_pc' = "returned"
           ELSE /\ fn_out' = [fn_out EXCEPT !.tried = a, !.last_err = fn_arg[a]]
                /\ fn_pc' = "except"
    /\ UNCHANGED <<fn_arg, pipeVars, filterVars, calls, coreVars>>

\* except Exception: time.sleep(wait), then the next turn of
\* for attempt in range(1, 6)
SleepAndContinue ==
    /\ fn_pc = "except"
    /\ \E jitter \in Jitters :
          fn_out' = [fn_out EXCEPT !.sleeps = Append(@, Wait(fn_out.attempt, jitter)),
                                   !.attempt = @ + 1]
    /\ fn_pc' = IF fn_out.attempt < MaxAttempts THEN "try" ELSE "after loop"
    /\ UNCHANGED <<fn_arg, pipeVars, filterVars, calls, coreVars>>

\* raise RuntimeError(... Último erro: {type(last_err).__name__} ...)
RaiseAfterLoop ==
    /\ fn_pc = "after loop"
    /\ fn_out' = [fn_out EXCEPT !.result = [raised |-> "RuntimeError", ultimo_erro |-> fn_out.last_err]]
    /\ fn_pc' = "raised"
    /\ UNCHANGED <<fn_arg, pipeVars, filterVars, calls, coreVars>>

NextRead == TryRead \/ SleepAndContinue \/ RaiseAfterLoop

\* the steps of the call are taken by one thread that nothing holds back
SpecRead == InitRead /\ [][NextRead]_vars /\ WF_vars(NextRead)

\* the attempts that fail before the first one that reads the workbook, all
\* five when none does
FailuresFirst(o) ==
    IF \E k \in 1..5 : o[k] = "df"
    THEN (CHOOSE k \in 1..5 : o[k] = "df" /\ \A j \in 1..(k - 1) : o[j] # "df") - 1
    ELSE 5

ReadSafe ==
    LET n == FailuresFirst(fn_arg)
    IN  /\ fn_out.tried <= 5
        /\ fn_pc = "returned" =>
              /\ n < 5
              /\ fn_out.tried = n + 1
              /\ fn_out.result = [df |-> n + 1]
              /\ Len(fn_out.sleeps) = n
        /\ fn_pc = "raised" =>
              /\ n = 5
              /\ fn_out.tried = 5
              /\ fn_out.result = [raised |-> "RuntimeError", ultimo_erro |-> fn_arg[5]]
              /\ Len(fn_out.sleeps) = 5
        /\ Len(fn_out.sleeps) <= fn_out.tried
        /\ \A k \in 1..Len(fn_out.sleeps) :
              /\ fn_arg[k] # "df"
              /\ LET base == <<2, 4, 8, 16, 32>>[k]
                 IN  /\ fn_out.sleeps[k] >= base * 10
                     /\ fn_out.sleeps[k] <= base * 10 + 15

\* C27: read_excel_from_drive tries at most five times, returns the workbook
\* of the first attempt that reads one and tries no more, sleeps
\* min(60, 2^attempt) seconds plus at most 1.5 seconds after every failed
\* attempt, raises an error naming the last failure after five failures,
\* and always ends
C27_BoundedRetries ==
    /\ []ReadSafe
    /\ [][(fn_pc \in {"returned", "raised"}) => (fn_out' = fn_out)]_vars
    /\ <>(fn_pc \in {"returned", "raised"})

\* the call has returned the workbook of its third attempt after two sleeps,
\* or has raised after five failures the last of which was a missing header
C27_Witness ==
    \/ /\ fn_pc = "returned"
       /\ fn_out.result = [df |-> 3]
       /\ Len(fn_out.sleeps) = 2
    \/ /\ fn_pc = "raised"
       /\ fn_out.result.ultimo_erro = "ValueError"
       /\ Len(fn_out.sleeps) = 5

(***************************************************************************)
(* invent2.run_pipeline called a second time (the button of app.py pressed *)
(* again) over the same folder, on the same day: the history CSV is what   *)
(* the first run left, the clock has moved on, and the caller still holds  *)
(* the summary of the first run.                                           *)
(***************************************************************************)
Rerun ==
    /\ pc = "done"
    /\ clock < RunStart + 2 * Len(files)
    /\ pc' = "start"
    /\ idx' = 1
    /\ frames' = <<>>
    /\ hist' = EmptyTable
    /\ df_all' = EmptyTable
    /\ UNCHANGED <<cfg, today, clock, files, histFile, sheet, resumo, filterVars, calls,
                   coreVars, fnVars>>

NextRerun == Next \/ Rerun

SpecRerun == Init /\ [][NextRerun]_vars

\* the second run has computed its final table from the history CSV that the
\* first run wrote
SecondTableReady ==
    /\ Len(files) > 0
    /\ clock = RunStart + 2 * Len(files)
    /\ cfg.HIST_SOURCE
    /\ pc = "write"

KeysOf(t) == {DedupKey(t.rows[i], t.hasId) : i \in 1..Len(t.rows)}

\* the rows of both tables that share a key carry the same quantities
SameContent(t1, t2) ==
    \A i \in 1..Len(t1.rows) : \A j \in 1..Len(t2.rows) :
        DedupKey(t1.rows[i], t1.hasId) = DedupKey(t2.rows[j], t2.hasId) =>
            /\ t1.rows[i].qtd_erp = t2.rows[j].qtd_erp
            /\ t1.rows[i].qtd_wms = t2.rows[j].qtd_wms
            /\ t1.rows[i].qtd_dif = t2.rows[j].qtd_dif
            /\ t1.rows[i].acuracia = t2.rows[j].acuracia

C28_SameKeys ==
    SecondTableReady =>
        /\ KeysOf(df_all) = KeysOf(hist)
        /\ Len(df_all.rows) = Len(hist.rows)
        /\ Cardinality(KeysOf(df_all)) = Len(df_all.rows)

\* a key that some file of the folder holds in more than one row
RepeatedInFile(key) ==
    \E f \in 1..Len(frames) : \E i, j \in 1..Len(frames[f].rows) :
        /\ i # j
        /\ DedupKey(frames[f].rows[i], df_all.hasId) = key
        /\ DedupKey(frames[f].rows[j], df_all.hasId) = key

\* the quantities of the keys that no file repeats
C28_SameContentUnrepeated ==
    SecondTableReady =>
        \A i \in 1..Len(hist.rows) : \A j \in 1..Len(df_all.rows) :
            (/\ DedupKey(hist.rows[i], hist.hasId) = DedupKey(df_all.rows[j], df_all.hasId)
             /\ ~RepeatedInFile(DedupKey(df_all.rows[j], df_all.hasId))) =>
                /\ hist.rows[i].qtd_erp = df_all.rows[j].qtd_erp
                /\ hist.rows[i].qtd_wms = df_all.rows[j].qtd_wms
                /\ hist.rows[i].qtd_dif = df_all.rows[j].qtd_dif
                /\ hist.rows[i].acuracia = df_all.rows[j].acuracia

\* the rows of the table that were produced from file j of the listing: they
\* carry the clock of its iteration
RowsOfFile(t, j) == {i \in 1..Len(t.rows) : t.rows[i].ingestion_ts = RunStart + j - 1}
\* the item ids of the frame of file j
ItemsOfFile(j) ==
    {frames[FrameIndex(j)].rows[i].item_id : i \in 1..Len(frames[FrameIndex(j)].rows)}
\* file j has no id column, repeats an item id, and is dated inside the window
RepeatsItem(j) ==
    /\ ~frames[FrameIndex(j)].hasId
    /\ Cardinality(ItemsOfFile(j)) < Len(frames[FrameIndex(j)].rows)
    /\ TsLE(Cutoff(today), frames[FrameIndex(j)].rows[1].dt_inventario)

\* C29 as stated: the rows of one file share one ingestion_ts, and of the
\* rows of a file without id column that repeat an item id exactly one is
\* in the final table, which holds as many rows of the file as the file has
\* distinct item ids
C29_OneRowPerItem ==
    /\ \A f \in 1..Len(frames) : \A i, k \in 1..Len(frames[f].rows) :
          frames[f].rows[i].ingestion_ts = frames[f].rows[k].ingestion_ts
    /\ pc \in {"write", "return", "done"} =>
          \A j \in DoneOk :
              RepeatsItem(j) =>
                  /\ \A it \in ItemsOfFile(j) :
                        Cardinality({i \in RowsOfFile(df_all, j) : df_all.rows[i].item_id = it}) = 1
                  /\ Cardinality(RowsOfFile(df_all, j)) = Cardinality(ItemsOfFile(j))

\* two rows that drop_duplicates takes for the same record in the combined
\* table of this run
SameRecord(r1, r2) ==
    /\ r1.dt_inventario = r2.dt_inventario
    /\ r1.loja = r2.loja
    /\ r1.item_id = r2.item_id
    /\ df_all.hasId => r1.id = r2.id
\* a file read after file j holds the item it of file j under the same date,
\* store and id
SupersededLater(j, it) ==
    \E j2 \in DoneOk : \E i \in 1..Len(frames[FrameIndex(j)].rows) :
        \E i2 \in 1..Len(frames[FrameIndex(j2)].rows) :
            /\ j2 > j
            /\ frames[FrameIndex(j)].rows[i].item_id = it
            /\ SameRecord(frames[FrameIndex(j)].rows[i], frames[FrameIndex(j2)].rows[i2])

\* C29 amended: the rows of one file share one ingestion_ts; of the rows of
\* a file without id column that repeat an item id at most one is in the
\* final table, and exactly one unless a file read later in the run holds the
\* same date, store and item; the final table holds exactly one row for that
\* record, and no more rows of the file than the file has distinct item ids
C29_OneRowPerRecord ==
    /\ \A f \in 1..Len(frames) : \A i, k \in 1..Len(frames[f].rows) :
          frames[f].rows[i].ingestion_ts = frames[f].rows[k].ingestion_ts
    /\ pc \in {"write", "return", "done"} =>
          \A j \in DoneOk :
              RepeatsItem(j) =>
                  /\ \A it \in ItemsOfFile(j) :
                        LET mine == {i \in RowsOfFile(df_all, j) : df_all.rows[i].item_id = it}
                            r0   == CHOOSE r \in Range(frames[FrameIndex(j)].rows) : r.item_id = it
                        IN  /\ Cardinality(mine) = (IF SupersededLater(j, it) THEN 0 ELSE 1)
                            /\ Cardinality({i \in 1..Len(df_all.rows) :
                                               SameRecord(df_all.rows[i], r0)}) = 1
                  /\ Cardinality(RowsOfFile(df_all, j)) <= Cardinality(ItemsOfFile(j))
                  /\ (\A it \in ItemsOfFile(j) : ~SupersededLater(j, it)) =>
                        Cardinality(RowsOfFile(df_all, j)) = Cardinality(ItemsOfFile(j))

\* the run over a file that holds item A twice has ended with one row of
\* item A and three rows of the file; and the run over that file followed by
\* a second file of the same day has ended with no row of item A from the
\* first file
C29_Witness ==
    /\ pc = "done"
    /\ Len(files) >= 1
    /\ Len(frames) = Len(files)
    /\ files[1].name = "Contagem050625.xlsx"
    /\ Len(frames[1].rows) = 4
    /\ \/ /\ Len(files) = 1
          /\ Cardinality(RowsOfFile(df_all, 1)) = 3
          /\ Cardinality({i \in 1..Len(df_all.rows) : df_all.rows[i].item_id = "A"}) = 1
       \/ /\ Len(files) = 2
          /\ files[2].name = "Contagem050625_v2.xlsx"
          /\ Cardinality(RowsOfFile(df_all, 1)) = 2
          /\ \E i \in RowsOfFile(df_all, 2) : df_all.rows[i].item_id = "A"

=============================================================================
